---- MODULE Spec2Model ----
(***************************************************************************)
(* Model of the fork-insights analyzer                                     *)
(* (src/03_github_org_active_forks_insights/                               *)
(*  github_org_active_forks_insights.py, class ForkInsightsAnalyzer).      *)
(*                                                                         *)
(* Strings are TLA+ strings; Python's str operations (lower, strip, split, *)
(* startswith, "in", count, join) and the regular expressions of the      *)
(* source are computed character by character.                            *)
(***************************************************************************)
EXTENDS Integers, Sequences, FiniteSets, TLC

VARIABLES
    pc,                \* position in process_csv / analyze_fork
    forks,             \* process_csv: rows read from the CSV file
    max_forks,         \* self.max_forks: None (Unset) or [limit |-> a number]
    idx,               \* process_csv: number of rows already taken by the loop
    all_insights,      \* process_csv: the output list
    fork_data,         \* analyze_fork: the row being analysed
    comparison,        \* analyze_fork: result of get_comparison
    file_analysis,     \* analyze_fork: result of analyze_file_changes
    patch_analysis,    \* analyze_fork: result of analyze_patch_content
    meaningfulness,    \* analyze_fork: result of classify_fork_meaningfulness
    commit_analysis,   \* analyze_fork: result of analyze_commit_content
    readme_analysis,   \* analyze_fork: result of analyze_readme_deeply
    doc_analysis,      \* analyze_fork: result of analyze_documentation_files
    summary,           \* analyze_fork: result of generate_executive_summary
    insights,          \* analyze_fork: the dict it returns, as far as it is filled in
    other_patch_analysis,   \* a second signal set scored against the same file analysis
    other_meaningfulness,   \* its verdict
    request            \* _make_request: the call being followed, Unset when none is

vars == <<pc, forks, max_forks, idx, all_insights, fork_data, comparison,
          file_analysis, patch_analysis, meaningfulness, commit_analysis,
          readme_analysis, doc_analysis, summary, insights,
          other_patch_analysis, other_meaningfulness, request>>

\* Python's None where a string is expected
None == "<None>"

\* a local of analyze_fork that has not been assigned yet, or a None where a dict or a
\* number is expected
Unset == [unset |-> TRUE]

\* an empty dict
EmptyDict == <<>>

\* d[key] = value
Put(d, key, value) == (key :> value) @@ d

(***************************************************************************)
(* Bounds of the model                                                     *)
(***************************************************************************)
\* largest number of entries in each signal list when signal sets are enumerated directly
MaxCount == 2
\* largest number of changed files when file analyses are enumerated directly
MaxFiles == 6

(***************************************************************************)
(* Generic helpers                                                         *)
(***************************************************************************)
Max(a, b) == IF a >= b THEN a ELSE b

\* a list of n copies of e
Rep(n, e) == [i \in 1..n |-> e]

\* seq[:n]
Take(seq, n) == SubSeq(seq, 1, IF Len(seq) < n THEN Len(seq) ELSE n)

RECURSIVE Join(_, _)
\* sep.join(parts)
Join(sep, parts) ==
    IF parts = <<>> THEN ""
    ELSE IF Len(parts) = 1 THEN parts[1]
    ELSE parts[1] \o sep \o Join(sep, Tail(parts))

\* the list f with every element computed (TLC keeps [n \in 1..k |-> e] unevaluated and
\* would compute e again at every use)
Listed(f) == f \o <<>>

RECURSIVE FlattenListed(_)
FlattenListed(lists) ==
    IF lists = <<>> THEN <<>>
    ELSE IF Len(lists) = 1 THEN lists[1]
    ELSE LET half == Len(lists) \div 2
         IN  FlattenListed(SubSeq(lists, 1, half))
             \o FlattenListed(SubSeq(lists, half + 1, Len(lists)))

\* the concatenation of a list of lists (by halves, so that the evaluation stays shallow)
Flatten(lists) == FlattenListed(Listed(lists))

(***************************************************************************)
(* Python str operations                                                   *)
(***************************************************************************)
\* s[i-1] (1-based here), "" outside the string
CharAt(s, i) == IF i >= 1 /\ i <= Len(s) THEN SubSeq(s, i, i) ELSE ""

\* s[i-1:]
From(s, i) == IF i > Len(s) THEN "" ELSE SubSeq(s, i, Len(s))

\* s[i-1:i-1+n], clipped at the end of s
Slice(s, i, n) ==
    IF i > Len(s) \/ n <= 0 THEN ""
    ELSE SubSeq(s, i, IF i + n - 1 > Len(s) THEN Len(s) ELSE i + n - 1)

\* s.startswith(prefix) at offset i
HasAt(s, i, sub) == Slice(s, i, Len(sub)) = sub

\* s.startswith(prefix)
StartsWith(s, prefix) == HasAt(s, 1, prefix)

\* sub in s
Contains(s, sub) == \E i \in 1..(Len(s) - Len(sub) + 1) : HasAt(s, i, sub)

\* any(x in s for x in subs)
ContainsAny(s, subs) == \E k \in 1..Len(subs) : Contains(s, subs[k])

UpperLetters == {"A", "B", "C", "D", "E", "F", "G", "H", "I", "J", "K", "L", "M", "N", "O", "P", "Q", "R", "S", "T", "U", "V", "W", "X", "Y", "Z"}

ToLowerLetter == ("A" :> "a") @@ ("B" :> "b") @@ ("C" :> "c") @@ ("D" :> "d") @@ ("E" :> "e") @@ ("F" :> "f") @@ ("G" :> "g") @@ ("H" :> "h") @@ ("I" :> "i") @@ ("J" :> "j") @@ ("K" :> "k") @@ ("L" :> "l") @@ ("M" :> "m") @@ ("N" :> "n") @@ ("O" :> "o") @@ ("P" :> "p") @@ ("Q" :> "q") @@ ("R" :> "r") @@ ("S" :> "s") @@ ("T" :> "t") @@ ("U" :> "u") @@ ("V" :> "v") @@ ("W" :> "w") @@ ("X" :> "x") @@ ("Y" :> "y") @@ ("Z" :> "z")

RECURSIVE Lower(_)
\* s.lower() (ASCII), computed by halves
Lower(s) ==
    IF s = "" THEN ""
    ELSE IF Len(s) = 1 THEN (IF s \in UpperLetters THEN ToLowerLetter[s] ELSE s)
    ELSE LET half == Len(s) \div 2
         IN  Lower(SubSeq(s, 1, half)) \o Lower(SubSeq(s, half + 1, Len(s)))

\* the characters str.strip() removes and \s matches
Whitespace == {" ", "\t", "\n", "\r", "\f"}

\* s.strip()
Strip(s) ==
    LET kept == {i \in 1..Len(s) : CharAt(s, i) \notin Whitespace}
    IN  IF kept = {} THEN ""
        ELSE LET first == CHOOSE i \in kept : \A j \in kept : i <= j
                 last  == CHOOSE i \in kept : \A j \in kept : j <= i
             IN  SubSeq(s, first, last)

\* s.split(sep) for a one-character separator
Split(s, sep) ==
    LET at    == {i \in 1..Len(s) : CharAt(s, i) = sep}
        n     == Cardinality(at)
        \* the position of the k-th separator; 0 and Len(s) + 1 stand for the two ends
        Sep(k) == IF k = 0 THEN 0
                  ELSE IF k = n + 1 THEN Len(s) + 1
                  ELSE CHOOSE i \in at : Cardinality({j \in at : j < i}) = k - 1
    IN  [k \in 1..(n + 1) |-> Slice(s, Sep(k - 1) + 1, Sep(k) - Sep(k - 1) - 1)]

RECURSIVE CountFrom(_, _, _)
CountFrom(s, sub, i) ==
    LET at == {j \in i..(Len(s) - Len(sub) + 1) : HasAt(s, j, sub)}
    IN  IF at = {} THEN 0
        ELSE 1 + CountFrom(s, sub, (CHOOSE j \in at : \A k \in at : j <= k) + Len(sub))

\* s.count(sub): non-overlapping occurrences, leftmost first
Count(s, sub) == CountFrom(s, sub, 1)

\* s.rfind(c) as a 1-based index, 0 when absent
RFind(s, c) ==
    IF \E i \in 1..Len(s) : CharAt(s, i) = c
    THEN CHOOSE i \in 1..Len(s) :
           /\ CharAt(s, i) = c
           /\ \A j \in (i + 1)..Len(s) : CharAt(s, j) # c
    ELSE 0

\* Path(f).name: the last component of the path
PathName(f) == From(f, RFind(f, "/") + 1)

\* Path(f).suffix: the last dot of the name and what follows it, unless the dot is
\* the first or the last character of the name
PathSuffix(f) ==
    LET name == PathName(f)
        dot  == RFind(name, ".")
    IN  IF dot > 1 /\ dot < Len(name) THEN From(name, dot) ELSE ""

\* Path(f).stem
PathStem(f) ==
    LET name == PathName(f)
        dot  == RFind(name, ".")
    IN  IF dot > 1 /\ dot < Len(name) THEN Slice(name, 1, dot - 1) ELSE name

(***************************************************************************)
(* Regular expressions (Python's re): a backtracking matcher that returns  *)
(* the matches in the order re tries them, with the texts of the groups    *)
(* that took part                                                          *)
(***************************************************************************)
LowerLetters == {"a", "b", "c", "d", "e", "f", "g", "h", "i", "j", "k", "l", "m", "n", "o", "p", "q", "r", "s", "t", "u", "v", "w", "x", "y", "z"}

Digits == {"0", "1", "2", "3", "4", "5", "6", "7", "8", "9"}

\* \w
WordChars == LowerLetters \cup UpperLetters \cup Digits \cup {"_"}

\* constructors of patterns
Lit(text)        == [k |-> "lit", text |-> text]
In(chars)        == [k |-> "in", chars |-> chars]
NotIn(chars)     == [k |-> "notin", chars |-> chars]
Cat(parts)       == [k |-> "cat", parts |-> parts]
Alt(parts)       == [k |-> "alt", parts |-> parts]
Rpt(r, lo, hi)   == [k |-> "rpt", r |-> r, lo |-> lo, hi |-> hi]
Grp(r)           == [k |-> "grp", r |-> r]
Bol              == [k |-> "bol"]
Eol              == [k |-> "eol"]

\* no upper limit of a repetition
Inf == -1

Star(r) == Rpt(r, 0, Inf)
Plus(r) == Rpt(r, 1, Inf)
Opt(r)  == Rpt(r, 0, 1)
Spaces0 == Star(In(Whitespace))
Spaces1 == Plus(In(Whitespace))
Word    == Plus(In(WordChars))
AnyOf(texts) == Alt([i \in 1..Len(texts) |-> Lit(texts[i])])

RECURSIVE MatchAt(_, _, _, _, _)
\* The matches of pattern r in s at position i, most preferred first.  Each is
\* [pos |-> the position after the match, caps |-> the group texts so far].
\* ml: re.MULTILINE.
MatchAt(r, s, i, caps, ml) ==
    CASE r.k = "lit" ->
           IF HasAt(s, i, r.text) THEN <<[pos |-> i + Len(r.text), caps |-> caps]>> ELSE <<>>
      [] r.k = "in" ->
           IF i <= Len(s) /\ CharAt(s, i) \in r.chars
           THEN <<[pos |-> i + 1, caps |-> caps]>> ELSE <<>>
      [] r.k = "notin" ->
           IF i <= Len(s) /\ CharAt(s, i) \notin r.chars
           THEN <<[pos |-> i + 1, caps |-> caps]>> ELSE <<>>
      [] r.k = "bol" ->
           IF i = 1 \/ (ml /\ CharAt(s, i - 1) = "\n")
           THEN <<[pos |-> i, caps |-> caps]>> ELSE <<>>
      [] r.k = "eol" ->
           IF i = Len(s) + 1 \/ (i = Len(s) /\ CharAt(s, i) = "\n") \/ (ml /\ CharAt(s, i) = "\n")
           THEN <<[pos |-> i, caps |-> caps]>> ELSE <<>>
      [] r.k = "cat" ->
           IF r.parts = <<>> THEN <<[pos |-> i, caps |-> caps]>>
           ELSE LET firsts == Listed(MatchAt(r.parts[1], s, i, caps, ml))
                    rest   == Cat(Tail(r.parts))
                IN  Flatten([n \in 1..Len(firsts) |->
                               MatchAt(rest, s, firsts[n].pos, firsts[n].caps, ml)])
      [] r.k = "alt" ->
           Flatten([n \in 1..Len(r.parts) |-> MatchAt(r.parts[n], s, i, caps, ml)])
      [] r.k = "rpt" /\ r.r.k \in {"in", "notin"} ->
           \* a repeated character class: the longest run first, then shorter ones
           LET Fits(j) == IF r.r.k = "in" THEN CharAt(s, j) \in r.r.chars
                          ELSE CharAt(s, j) \notin r.r.chars
               stops == {j \in i..(Len(s) + 1) : j = Len(s) + 1 \/ ~Fits(j)}
               run   == (CHOOSE j \in stops : \A k \in stops : j <= k) - i
               most  == IF r.hi # Inf /\ r.hi < run THEN r.hi ELSE run
           IN  IF most < r.lo THEN <<>>
               ELSE Listed([n \in 1..(most - r.lo + 1) |->
                              [pos |-> i + most - n + 1, caps |-> caps]])
      [] r.k = "rpt" /\ r.r.k \notin {"in", "notin"} ->
           LET once == IF r.hi = 0 THEN <<>> ELSE Listed(MatchAt(r.r, s, i, caps, ml))
               more == Rpt(r.r, IF r.lo > 0 THEN r.lo - 1 ELSE 0,
                                IF r.hi = Inf THEN Inf ELSE r.hi - 1)
           IN  Flatten([n \in 1..Len(once) |->
                          IF once[n].pos > i
                          THEN MatchAt(more, s, once[n].pos, once[n].caps, ml)
                          ELSE <<>>])
               \o (IF r.lo <= 0 THEN <<[pos |-> i, caps |-> caps]>> ELSE <<>>)
      [] r.k = "grp" ->
           LET inner == Listed(MatchAt(r.r, s, i, caps, ml))
           IN  Listed([n \in 1..Len(inner) |->
                         [pos |-> inner[n].pos,
                          caps |-> Append(caps, Slice(s, i, inner[n].pos - i))]])

\* the least element of a set of positions, 0 for the empty set
Least(positions) ==
    IF positions = {} THEN 0 ELSE CHOOSE j \in positions : \A k \in positions : j <= k

\* the first position from i on at which r matches, 0 if there is none
FirstStart(r, s, i, ml) ==
    Least({j \in i..(Len(s) + 1) : MatchAt(r, s, j, <<>>, ml) # <<>>})

RECURSIVE FindAllFrom(_, _, _, _)
\* the match found at start, then the matches after it (after start itself when the
\* match is empty)
FindAllNext(r, s, start, found, ml) ==
    <<found.caps>>
    \o FindAllFrom(r, s, IF found.pos > start THEN found.pos ELSE start + 1, ml)

\* the matches from the first matching position start on (0: there is none)
FindAllAt(r, s, start, ml) ==
    IF start = 0 THEN <<>>
    ELSE FindAllNext(r, s, start, Listed(MatchAt(r, s, start, <<>>, ml))[1], ml)

FindAllFrom(r, s, i, ml) == FindAllAt(r, s, FirstStart(r, s, i, ml), ml)

\* re.findall(r, s): for every non-overlapping match, leftmost first, the texts of
\* the groups that took part in it (a group that took no part is '' in Python)
FindAll(r, s) == FindAllFrom(r, s, 1, FALSE)

\* re.findall(r, s, re.MULTILINE)
FindAllMultiline(r, s) == FindAllFrom(r, s, 1, TRUE)

(***************************************************************************)
(* classify_fork_meaningfulness                                            *)
(***************************************************************************)
\* lines 924-927
NewFunctionsEvidence(acc, new_functions_count) ==
    IF new_functions_count > 0
    THEN [score   |-> acc.score + new_functions_count * 10,
          reasons |-> Append(acc.reasons, ToString(new_functions_count) \o " new function(s) added")]
    ELSE acc

\* lines 929-931
NewClassesEvidence(acc, new_classes_count) ==
    IF new_classes_count > 0
    THEN [score   |-> acc.score + new_classes_count * 15,
          reasons |-> Append(acc.reasons, ToString(new_classes_count) \o " new class(es) added")]
    ELSE acc

\* lines 933-935
EnhancedFunctionsEvidence(acc, enhanced_functions_count) ==
    IF enhanced_functions_count > 0
    THEN [score   |-> acc.score + enhanced_functions_count * 5,
          reasons |-> Append(acc.reasons, ToString(enhanced_functions_count) \o " function(s) enhanced with new logic")]
    ELSE acc

\* variant of EnvAdjustmentsEvidence: the score is assigned ("=") instead of accumulated ("+=")
EnvAdjustmentsEvidence_Assign(acc, env_adjustments_count) ==
    IF env_adjustments_count > 0
    THEN [score   |-> env_adjustments_count * 8,
          reasons |-> Append(acc.reasons, ToString(env_adjustments_count) \o " environment adjustment(s) for deployment")]
    ELSE acc

\* lines 937-939
EnvAdjustmentsEvidence(acc, env_adjustments_count) ==
    IF env_adjustments_count > 0
    THEN [score   |-> acc.score + env_adjustments_count * 8,
          reasons |-> Append(acc.reasons, ToString(env_adjustments_count) \o " environment adjustment(s) for deployment")]
    ELSE acc

\* variant of CodeAdditionsEvidence: 50 added lines already count
CodeAdditionsEvidence_AtLeast50(acc, code_additions) ==
    IF code_additions > 100
    THEN [score   |-> acc.score + 20,
          reasons |-> Append(acc.reasons, ToString(code_additions) \o " lines of code added")]
    ELSE IF code_additions >= 50
    THEN [score   |-> acc.score + 10,
          reasons |-> Append(acc.reasons, ToString(code_additions) \o " lines of code added")]
    ELSE acc

\* variant of CodeAdditionsEvidence: "if" instead of "elif", so both bonuses are added above 100
CodeAdditionsEvidence_BothBonuses(acc, code_additions) ==
    LET first == IF code_additions > 100
                 THEN [score   |-> acc.score + 20,
                       reasons |-> Append(acc.reasons, ToString(code_additions) \o " lines of code added")]
                 ELSE acc
    IN  IF code_additions > 50
        THEN [score   |-> first.score + 10,
              reasons |-> Append(first.reasons, ToString(code_additions) \o " lines of code added")]
        ELSE first

\* lines 941-946
CodeAdditionsEvidence(acc, code_additions) ==
    IF code_additions > 100
    THEN [score   |-> acc.score + 20,
          reasons |-> Append(acc.reasons, ToString(code_additions) \o " lines of code added")]
    ELSE IF code_additions > 50
    THEN [score   |-> acc.score + 10,
          reasons |-> Append(acc.reasons, ToString(code_additions) \o " lines of code added")]
    ELSE acc

\* lines 921-946: meaningful_score and reasons after the positive indicators
PositiveEvidence(pa) ==
    CodeAdditionsEvidence(
      EnvAdjustmentsEvidence(
        EnhancedFunctionsEvidence(
          NewClassesEvidence(
            NewFunctionsEvidence([score |-> 0, reasons |-> <<>>],
                                 Len(pa.new_functions_detected)),
            Len(pa.new_classes_detected)),
          Len(pa.enhanced_functions)),
        Len(pa.environment_adjustments)),
      pa.code_additions_count)

\* variant of ConfigRatioHigh: a ratio of exactly 0.8 counts as high
ConfigRatioHigh_AtLeast(config_only_count, total_files) ==
    5 * config_only_count >= 4 * total_files

\* lines 950, 953: config_ratio = len(config_only_changes) / total_files; config_ratio > 0.8.
\* n / t > 0.8 on floats is 5 * n > 4 * t on the integers of the model
\* (4/5 itself is the double 0.8, and no other quotient of small integers rounds to it).
ConfigRatioHigh(config_only_count, total_files) ==
    5 * config_only_count > 4 * total_files

\* lines 952-956
ConfigPenalty(acc, config_only_count, total_files) ==
    IF ConfigRatioHigh(config_only_count, total_files)
    THEN [score   |-> acc.score - 15,
          reasons |-> IF acc.reasons = <<>>
                      THEN <<ToString(config_only_count) \o " configuration file(s) changed">>
                      ELSE acc.reasons]
    ELSE acc

\* variant of DocumentationOnly: documentation among other categories counts
DocumentationOnly_Among(categories) ==
    "documentation" \in categories

\* line 959
DocumentationOnly(categories) ==
    "documentation" \in categories /\ Cardinality(categories) = 1

\* variant of DocumentationPenalty: the reason is appended whatever the list holds
DocumentationPenalty_AlwaysReason(acc, categories) ==
    IF DocumentationOnly(categories)
    THEN [score   |-> acc.score - 10,
          reasons |-> Append(acc.reasons, "Only documentation changes")]
    ELSE acc

\* lines 958-962
DocumentationPenalty(acc, categories) ==
    IF DocumentationOnly(categories)
    THEN [score   |-> acc.score - 10,
          reasons |-> IF acc.reasons = <<>>
                      THEN <<"Only documentation changes">>
                      ELSE acc.reasons]
    ELSE acc

\* lines 948-962
NegativeIndicators(acc, pa, fa) ==
    IF fa.total_files_changed > 0
    THEN DocumentationPenalty(
           ConfigPenalty(acc, Len(pa.config_only_changes), fa.total_files_changed),
           fa.change_categories)
    ELSE acc

\* variant of DetermineClassification: an empty list of reasons is left empty
DetermineClassification_NoFallback(acc) ==
    IF acc.score >= 20
    THEN [is_meaningful |-> TRUE, classification |-> "Meaningful",
          confidence |-> "high", reasons |-> acc.reasons]
    ELSE IF acc.score >= 10
    THEN [is_meaningful |-> TRUE, classification |-> "Meaningful",
          confidence |-> "medium", reasons |-> acc.reasons]
    ELSE IF acc.score >= 5
    THEN [is_meaningful |-> TRUE, classification |-> "Likely Meaningful",
          confidence |-> "low", reasons |-> acc.reasons]
    ELSE [is_meaningful |-> FALSE, classification |-> "Not Meaningful",
          confidence |-> IF acc.score < -5 THEN "medium" ELSE "low",
          reasons |-> acc.reasons]

\* variant of DetermineClassification: the lowest meaningful band starts above 5 instead of at 5
DetermineClassification_Above5(acc) ==
    IF acc.score >= 20
    THEN [is_meaningful |-> TRUE, classification |-> "Meaningful",
          confidence |-> "high", reasons |-> acc.reasons]
    ELSE IF acc.score >= 10
    THEN [is_meaningful |-> TRUE, classification |-> "Meaningful",
          confidence |-> "medium", reasons |-> acc.reasons]
    ELSE IF acc.score > 5
    THEN [is_meaningful |-> TRUE, classification |-> "Likely Meaningful",
          confidence |-> "low", reasons |-> acc.reasons]
    ELSE [is_meaningful |-> FALSE, classification |-> "Not Meaningful",
          confidence |-> IF acc.score < -5 THEN "medium" ELSE "low",
          reasons |-> IF acc.reasons = <<>>
                      THEN <<"No significant code changes detected">>
                      ELSE acc.reasons]

\* variant of DetermineClassification: below the bands, confidence is medium under 5
\* instead of under -5
DetermineClassification_MediumBelow5(acc) ==
    IF acc.score >= 20
    THEN [is_meaningful |-> TRUE, classification |-> "Meaningful",
          confidence |-> "high", reasons |-> acc.reasons]
    ELSE IF acc.score >= 10
    THEN [is_meaningful |-> TRUE, classification |-> "Meaningful",
          confidence |-> "medium", reasons |-> acc.reasons]
    ELSE IF acc.score >= 5
    THEN [is_meaningful |-> TRUE, classification |-> "Likely Meaningful",
          confidence |-> "low", reasons |-> acc.reasons]
    ELSE [is_meaningful |-> FALSE, classification |-> "Not Meaningful",
          confidence |-> IF acc.score < 5 THEN "medium" ELSE "low",
          reasons |-> IF acc.reasons = <<>>
                      THEN <<"No significant code changes detected">>
                      ELSE acc.reasons]

\* lines 964-983
DetermineClassification(acc) ==
    IF acc.score >= 20
    THEN [is_meaningful |-> TRUE, classification |-> "Meaningful",
          confidence |-> "high", reasons |-> acc.reasons]
    ELSE IF acc.score >= 10
    THEN [is_meaningful |-> TRUE, classification |-> "Meaningful",
          confidence |-> "medium", reasons |-> acc.reasons]
    ELSE IF acc.score >= 5
    THEN [is_meaningful |-> TRUE, classification |-> "Likely Meaningful",
          confidence |-> "low", reasons |-> acc.reasons]
    ELSE [is_meaningful |-> FALSE, classification |-> "Not Meaningful",
          confidence |-> IF acc.score < -5 THEN "medium" ELSE "low",
          reasons |-> IF acc.reasons = <<>>
                      THEN <<"No significant code changes detected">>
                      ELSE acc.reasons]

\* variant of MeaningfulSummary: enhanced functions are tested before environment adjustments
MeaningfulSummary_EnhancedFirst(pa) ==
    IF Len(pa.new_functions_detected) > 0 \/ Len(pa.new_classes_detected) > 0
    THEN "Fork adds new functionality to the codebase"
    ELSE IF Len(pa.enhanced_functions) > 0
    THEN "Fork enhances existing functionality"
    ELSE IF Len(pa.environment_adjustments) > 0
    THEN "Fork adapts the project for different environments"
    ELSE "Fork includes substantial code modifications"

\* lines 986-994
MeaningfulSummary(pa) ==
    IF Len(pa.new_functions_detected) > 0 \/ Len(pa.new_classes_detected) > 0
    THEN "Fork adds new functionality to the codebase"
    ELSE IF Len(pa.environment_adjustments) > 0
    THEN "Fork adapts the project for different environments"
    ELSE IF Len(pa.enhanced_functions) > 0
    THEN "Fork enhances existing functionality"
    ELSE "Fork includes substantial code modifications"

\* variant of NotMeaningfulSummary: the documentation sentence needs documentation to be
\* the only category, as the penalty of line 959 does
NotMeaningfulSummary_OnlyCategory(pa, fa) ==
    IF (IF fa.total_files_changed > 0
        THEN ConfigRatioHigh(Len(pa.config_only_changes), fa.total_files_changed)
        ELSE FALSE)
    THEN "Fork primarily contains configuration updates"
    ELSE IF "documentation" \in fa.change_categories /\ Cardinality(fa.change_categories) = 1
    THEN "Fork primarily contains documentation changes"
    ELSE "Fork contains minor or non-functional changes"

\* lines 995-1001
NotMeaningfulSummary(pa, fa) ==
    IF (IF fa.total_files_changed > 0
        THEN ConfigRatioHigh(Len(pa.config_only_changes), fa.total_files_changed)
        ELSE FALSE)
    THEN "Fork primarily contains configuration updates"
    ELSE IF "documentation" \in fa.change_categories /\ Cardinality(fa.change_categories) <= 2
    THEN "Fork primarily contains documentation changes"
    ELSE "Fork contains minor or non-functional changes"

\* lines 985-1001
BuildSummary(is_meaningful, pa, fa) ==
    IF is_meaningful THEN MeaningfulSummary(pa) ELSE NotMeaningfulSummary(pa, fa)

\* lines 892-1003.  The returned dict has is_meaningful, classification, confidence,
\* reasons and summary; the model also records the local meaningful_score as it is
\* after line 946 (positive_score) and after line 962 (score).
classify_fork_meaningfulness(pa, fa) ==
    LET positive == PositiveEvidence(pa)
        scored   == NegativeIndicators(positive, pa, fa)
        band     == DetermineClassification(scored)
    IN  [is_meaningful  |-> band.is_meaningful,
         classification |-> band.classification,
         confidence     |-> band.confidence,
         reasons        |-> band.reasons,
         summary        |-> BuildSummary(band.is_meaningful, pa, fa),
         positive_score |-> positive.score,
         score          |-> scored.score]

(***************************************************************************)
(* Zero values of the analyses                                             *)
(***************************************************************************)
\* analyze_file_changes, lines 308-318.  files_by_type (a Counter) is the list of
\* its (extension, count) entries in insertion order.
EmptyFileAnalysis ==
    [total_files_changed     |-> 0,
     files_by_type           |-> <<>>,
     change_categories       |-> {},
     key_areas               |-> <<>>,
     technical_changes       |-> <<>>,
     specific_files_modified |-> <<>>,
     new_files_added         |-> <<>>,
     files_removed           |-> <<>>,
     major_changes           |-> <<>>]

\* analyze_patch_content, lines 659-669
EmptyPatchAnalysis ==
    [new_functions_detected      |-> <<>>,
     new_classes_detected        |-> <<>>,
     enhanced_functions          |-> <<>>,
     environment_adjustments     |-> <<>>,
     config_only_changes         |-> <<>>,
     code_additions_count        |-> 0,
     config_additions_count      |-> 0,
     has_meaningful_code_changes |-> FALSE,
     meaningfulness_signals      |-> <<>>]

\* analyze_commit_content, lines 818-823
EmptyCommitAnalysis ==
    [development_focus      |-> <<>>,
     key_features_mentioned |-> <<>>,
     specific_actions       |-> <<>>,
     commit_sample          |-> <<>>]

\* lines 791-809
HasMeaningfulCodeChanges(pa) ==
    \/ Len(pa.new_functions_detected) > 0
    \/ Len(pa.new_classes_detected) > 0
    \/ Len(pa.enhanced_functions) > 0
    \/ Len(pa.environment_adjustments) > 0
    \/ pa.code_additions_count > 50

(***************************************************************************)
(* Comparisons.  A comparison is None (Unset), or a dict that may hold     *)
(* 'files' (a list of file dicts with filename, status, additions,         *)
(* deletions, patch) and 'commits' (a list of {'commit': {'message': m}}). *)
(***************************************************************************)
\* "not comparison or key not in comparison" (lines 320, 671, 825)
Lacks(c, key) == c = Unset \/ key \notin DOMAIN c

(***************************************************************************)
(* Changed files served by the comparison API, as inputs                   *)
(***************************************************************************)
File(filename, status, additions, deletions, patch) ==
    [filename |-> filename, status |-> status, additions |-> additions,
     deletions |-> deletions, patch |-> patch]

\* code files whose patch adds exactly one line, a function declaration
PyOneFunction   == File("src/app.py", "modified", 1, 1,
                        "--- a/src/app.py\n+++ b/src/app.py\n@@ -1,2 +1,2 @@\n import os\n-def old(\n+def foo(")
GoOneFunction   == File("cmd/main.go", "added", 1, 0, "@@ -0,0 +1 @@\n+func Foo(")
JsOneFunction   == File("web/app.js", "modified", 1, 0, "@@ -3,0 +4 @@\n+function foo(")
JavaOneFunction == File("Main.java", "modified", 1, 0, "@@ -3,0 +4 @@\n+    public void foo(")

\* a code file whose patch adds a class declaration
PyOneClass == File("src/shapes.py", "added", 2, 0, "@@ -0,0 +1,2 @@\n+class Foo:\n+    pass")

\* a modified code file with more than 10 additions and added logic
PyEnhanced == File("src/core.py", "modified", 11, 2,
                   "@@ -5,2 +5,11 @@\n-    x = 1\n+    if x > 1:\n+        y = x")

\* a code file with more than 100 additions and no declaration
PyLarge == File("src/table.py", "added", 101, 0, "@@ -0,0 +1,101 @@\n+x = 1\n+y = 2")

\* YAML files: one with few additions, one with substantial deployment lines
YamlSmall == File("app.yaml", "modified", 2, 1,
                  "@@ -1,2 +1,3 @@\n-replicas: 1\n+replicas: 2\n+debug: true")
YamlDeployment == File("k8s/service.yaml", "added", 6, 0,
                       "@@ -0,0 +1,6 @@\n+# service\n+image: registry.example.com/app:1.2\n+command: run --listen 0.0.0.0:8080\n+hostname: app.internal.example.com\n+volume: /var/lib/app/data:/data:rw\n+port: 80")

\* configuration files that match no deployment keyword
JsonConfig     == File("data.json", "modified", 3, 1, "@@ -1 +1,3 @@\n-{}\n+{\"a\": 1}")
SettingsConfig == File("docs/settings.ini", "added", 60, 0, "@@ -0,0 +1 @@\n+[main]")
TomlConfig     == File("pyproject.toml", "modified", 2, 2, "@@ -1,2 +1,2 @@\n-version = \"1\"\n+version = \"2\"")

\* a documentation file and a file without patch text
Readme   == File("README.md", "modified", 12, 3, "@@ -1 +1,2 @@\n+# About this fork")
NoPatch  == File("assets/logo.png", "added", 0, 0, "")

FileSamples == {PyOneFunction, GoOneFunction, JsOneFunction, JavaOneFunction, PyOneClass,
                PyEnhanced, PyLarge, YamlSmall, YamlDeployment, JsonConfig, SettingsConfig,
                TomlConfig, Readme, NoPatch}

\* new documents, changed by forks of upstream/widget only
DeploymentGuide == File("docs/deployment.md", "added", 40, 0, "@@ -0,0 +1 @@\n+# Deployment")
ApiGuide        == File("docs/api.md", "added", 30, 0, "@@ -0,0 +1 @@\n+# API")

DocumentSamples == {DeploymentGuide, ApiGuide}

\* Files with a count that is not a number.  TLC cannot hold a number and a string
\* under the same key, so such a count is kept under the key additions_text or
\* deletions_text, as the text of the Python value, and the key of the count is absent
\* from the record; file_data.get(key) of the source still finds the value.
NoneAdditions        == [filename |-> "src/app.py", status |-> "modified", additions_text |-> "None",
                         deletions |-> 0, patch |-> "@@ -1 +1 @@\n+x = 1"]
TextDeletions        == [filename |-> "data.json", status |-> "modified", additions |-> 3,
                         deletions_text |-> "'1'", patch |-> "@@ -1 +1,3 @@\n-{}\n+{\"a\": 1}"]
TextAdditionsReadme  == [filename |-> "README.md", status |-> "modified", additions_text |-> "'12'",
                         deletions |-> 3, patch |-> "@@ -1 +1,2 @@\n+# About this fork"]
NoneAdditionsNoPatch == [filename |-> "src/app.py", status |-> "modified", additions_text |-> "None",
                         deletions |-> 0, patch |-> ""]
NoneAdditionsDocker  == [filename |-> "Dockerfile", status |-> "added", additions_text |-> "None",
                         deletions |-> 0, patch |-> "@@ -0,0 +1 @@\n+FROM python:3.12"]

MalformedSamples == {NoneAdditions, TextDeletions, TextAdditionsReadme, NoneAdditionsNoPatch,
                     NoneAdditionsDocker}

\* the value under the key is there and is not a number
NotANumber(file_data, key) == (key \o "_text") \in DOMAIN file_data

\* an exception that leaves a function instead of its result
TypeError == [raised |-> "TypeError"]

Raised(result) == result # Unset /\ DOMAIN result = {"raised"}

\* the function f with every value computed once (TLC keeps [x \in S |-> e] unevaluated)
Tabulated(f) == f @@ <<>>

(***************************************************************************)
(* analyze_file_changes                                                    *)
(***************************************************************************)
\* lines 360-392: the keyword lists, in the order the categories are tested
CategoryKeywords ==
    << [category |-> "infrastructure",
        keywords |-> <<"docker", "dockerfile", ".yml", ".yaml", "ci", "cd", "deploy">>],
       [category |-> "configuration",
        keywords |-> <<"config", "settings", ".env", ".ini", ".conf">>],
       [category |-> "testing",
        keywords |-> <<"test", "spec", "__test__", ".test.", ".spec.">>],
       [category |-> "documentation",
        keywords |-> <<"readme", "docs/", "documentation", ".md", "license">>],
       [category |-> "security",
        keywords |-> <<"auth", "security", "crypto", "password", "token", "secret">>],
       [category |-> "database",
        keywords |-> <<"migration", "schema", "model", "database", "db/", "sql">>],
       [category |-> "api",
        keywords |-> <<"api/", "endpoint", "route", "controller", "handler">>],
       [category |-> "frontend",
        keywords |-> <<".css", ".scss", ".html", ".jsx", ".tsx", ".vue", "component", "ui/">>],
       [category |-> "dependencies",
        keywords |-> <<"package.json", "requirements.txt", "go.mod", "pom.xml",
                       "build.gradle", "gemfile", "cargo.toml">>] >>

\* lines 357-392: the categories a file name falls into
CategoriesOf(filename_lower) ==
    { CategoryKeywords[k].category :
        k \in { j \in 1..Len(CategoryKeywords) :
                  ContainsAny(filename_lower, CategoryKeywords[j].keywords) } }

\* lines 352-355: files_by_type[file_ext] += 1
CounterAdd(counter, key) ==
    IF \E i \in 1..Len(counter) : counter[i].key = key
    THEN [i \in 1..Len(counter) |->
            IF counter[i].key = key
            THEN [key |-> key, count |-> counter[i].count + 1]
            ELSE counter[i]]
    ELSE Append(counter, [key |-> key, count |-> 1])

RECURSIVE MostCommon(_, _)
\* Counter.most_common(n): the n keys of highest count, highest first, equal counts
\* in insertion order
MostCommon(counter, n) ==
    IF n = 0 \/ counter = <<>> THEN <<>>
    ELSE LET best == CHOOSE i \in 1..Len(counter) :
                       /\ \A j \in 1..Len(counter) : counter[j].count <= counter[i].count
                       /\ \A j \in 1..(i - 1) : counter[j].count < counter[i].count
             rest == [j \in 1..(Len(counter) - 1) |->
                        IF j < best THEN counter[j] ELSE counter[j + 1]]
         IN  <<counter[best].key>> \o MostCommon(rest, n - 1)

\* lines 353, 358-392: what the loop derives from the file name alone
NameTraits(filename) ==
    [file_ext   |-> Lower(PathSuffix(filename)),
     categories |-> CategoriesOf(Lower(filename))]

\* NameTraits of the sample files, computed once
SampleNameTraits ==
    Tabulated([f \in FileSamples \cup DocumentSamples |-> NameTraits(f.filename)])

\* lines 327-392: one iteration of the loop over the files
FileChangesOfFile(analysis, file_data) ==
    LET filename  == file_data.filename
        status    == file_data.status
        additions == file_data.additions
        deletions == file_data.deletions
        traits    == IF file_data \in DOMAIN SampleNameTraits THEN SampleNameTraits[file_data]
                     ELSE NameTraits(filename)
        file_ext  == traits.file_ext
    IN  [analysis EXCEPT
           !.specific_files_modified = Append(@, filename),
           !.new_files_added = IF status = "added" THEN Append(@, filename) ELSE @,
           !.files_removed   = IF status = "removed" THEN Append(@, filename) ELSE @,
           !.major_changes   = IF additions + deletions > 50
                               THEN Append(@, [file |-> filename, status |-> status,
                                               additions |-> additions,
                                               deletions |-> deletions])
                               ELSE @,
           !.files_by_type   = IF file_ext # "" THEN CounterAdd(@, file_ext) ELSE @,
           !.change_categories = @ \cup traits.categories]

RECURSIVE FileChangesLoop(_, _)
FileChangesLoop(analysis, files) ==
    IF files = <<>> THEN analysis
    ELSE FileChangesLoop(FileChangesOfFile(analysis, Head(files)), Tail(files))

\* line 344: additions + deletions > 50 raises TypeError unless both are numbers
\* (None + 0 and '12' + 0 raise in the sum, '12' + '1' is a string and raises in the
\* comparison with 50)
FileChangesRaises(file_data) ==
    NotANumber(file_data, "additions") \/ NotANumber(file_data, "deletions")

\* lines 304-397
analyze_file_changes(c) ==
    IF Lacks(c, "files") THEN EmptyFileAnalysis
    ELSE IF \E n \in 1..Len(c.files) : FileChangesRaises(c.files[n]) THEN TypeError
    ELSE LET counted == [EmptyFileAnalysis EXCEPT !.total_files_changed = Len(c.files)]
             looped  == FileChangesLoop(counted, c.files)
         IN  [looped EXCEPT !.key_areas = MostCommon(looped.files_by_type, 3)]

(***************************************************************************)
(* analyze_patch_content                                                   *)
(***************************************************************************)
\* lines 677-678
config_extensions == {".yml", ".yaml", ".json", ".toml", ".ini", ".conf",
                      ".env", ".properties", ".cfg", ".config", ".xml"}

\* lines 681-683
code_extensions == {".py", ".js", ".ts", ".java", ".go", ".rb", ".php",
                    ".cpp", ".c", ".h", ".cs", ".swift", ".kt", ".rs",
                    ".jsx", ".tsx", ".vue", ".scala", ".sh", ".bash"}

\* line 698
IsCodeFile(filename) == Lower(PathSuffix(filename)) \in code_extensions

\* line 699
IsConfigFile(filename) ==
    \/ Lower(PathSuffix(filename)) \in config_extensions
    \/ ContainsAny(Lower(filename), <<"config", ".env", "settings">>)

\* line 700
IsDockerEnv(filename) ==
    ContainsAny(Lower(filename), <<"docker", "kubernetes", "k8s", ".yml", ".yaml">>)

\* the common start of every declaration pattern: ^\+\s*
AddedLineStart == <<Bol, Lit("+"), Spaces0>>

\* (?:async\s*)?\(
AsyncParen == <<Opt(Cat(<<Lit("async"), Spaces0>>)), Lit("(")>>

\* lines 719-726, in the order of the dict
function_patterns ==
    << [language |-> "python",
        pattern  |-> Cat(AddedLineStart \o
                         <<Lit("def"), Spaces1, Grp(Word), Spaces0, Lit("(")>>)],
       [language |-> "javascript",
        pattern  |-> Cat(AddedLineStart \o
                         <<Alt(<<Cat(<<Lit("function"), Spaces1, Grp(Word)>>),
                                 Cat(<<AnyOf(<<"const", "let", "var">>), Spaces1, Grp(Word),
                                       Spaces0, Lit("="), Spaces0>> \o AsyncParen),
                                 Cat(<<Grp(Word), Spaces0, Lit(":"), Spaces0>> \o AsyncParen)>>)>>)],
       [language |-> "java",
        pattern  |-> Cat(AddedLineStart \o
                         <<Opt(AnyOf(<<"public", "private", "protected">>)), Spaces0,
                           Opt(Cat(<<Lit("static"), Spaces1>>)),
                           Plus(In(WordChars \cup {"<", ">"})), Spaces1,
                           Grp(Word), Spaces0, Lit("(")>>)],
       [language |-> "go",
        pattern  |-> Cat(AddedLineStart \o
                         <<Lit("func"), Spaces1, Grp(Word), Spaces0, Lit("(")>>)],
       [language |-> "typescript",
        pattern  |-> Cat(AddedLineStart \o
                         <<Alt(<<Cat(<<Lit("function"), Spaces1, Grp(Word)>>),
                                 Cat(<<AnyOf(<<"const", "let">>), Spaces1, Grp(Word),
                                       Spaces0, Lit("="), Spaces0>> \o AsyncParen),
                                 Cat(<<Grp(Word), Spaces0, Lit(":"), Spaces0>> \o AsyncParen)>>)>>)],
       [language |-> "c/cpp",
        pattern  |-> Cat(AddedLineStart \o
                         <<Plus(In(WordChars \cup {"*"})), Spaces1, Grp(Word), Spaces0,
                           Lit("("), Star(NotIn({")"})), Lit(")"), Spaces0, Lit("{")>>)] >>

\* lines 728-734, in the order of the dict
class_patterns ==
    << [language |-> "python",
        pattern  |-> Cat(AddedLineStart \o <<Lit("class"), Spaces1, Grp(Word)>>)],
       [language |-> "javascript",
        pattern  |-> Cat(AddedLineStart \o <<Lit("class"), Spaces1, Grp(Word)>>)],
       [language |-> "java",
        pattern  |-> Cat(AddedLineStart \o
                         <<Opt(AnyOf(<<"public", "private", "protected">>)), Spaces0,
                           Opt(Cat(<<Lit("abstract"), Spaces1>>)),
                           Lit("class"), Spaces1, Grp(Word)>>)],
       [language |-> "typescript",
        pattern  |-> Cat(AddedLineStart \o
                         <<Opt(Cat(<<Lit("export"), Spaces1>>)),
                           Lit("class"), Spaces1, Grp(Word)>>)],
       [language |-> "cpp",
        pattern  |-> Cat(AddedLineStart \o <<Lit("class"), Spaces1, Grp(Word)>>)] >>

\* lines 740-742: the names a pattern finds in a line (those of its first match)
FunctionNames(matches) ==
    IF matches = <<>> THEN <<>> ELSE SelectSeq(matches[1], LAMBDA m : m # "")

\* lines 743-747
FunctionEntries(filename, language, func_names) ==
    [n \in 1..Len(func_names) |->
       [file |-> filename, function |-> func_names[n], language |-> language]]

\* lines 738-749: the entries one line adds to new_functions_detected, over the
\* patterns of function_patterns in order
FunctionsOfLine(filename, line) ==
    Flatten([k \in 1..Len(function_patterns) |->
               FunctionEntries(filename, function_patterns[k].language,
                               FunctionNames(FindAll(function_patterns[k].pattern, line)))])

\* lines 755-759
ClassEntries(filename, language, matches) ==
    [n \in 1..Len(matches) |->
       [file |-> filename, class |-> matches[n][1], language |-> language]]

\* lines 751-761: the entries one line adds to new_classes_detected
ClassesOfLine(filename, line) ==
    Flatten([k \in 1..Len(class_patterns) |->
               ClassEntries(filename, class_patterns[k].language,
                            FindAll(class_patterns[k].pattern, line))])

\* lines 738-761: what one line declares
DeclarationsOfLine(filename, line) ==
    [functions |-> FunctionsOfLine(filename, line),
     classes   |-> ClassesOfLine(filename, line)]

\* lines 749, 761: the audit strings one line adds, functions before classes
SignalsOfLine(filename, declared) ==
    [n \in 1..Len(declared.functions) |->
       "New function: " \o declared.functions[n].function \o " in " \o filename]
    \o [n \in 1..Len(declared.classes) |->
       "New class: " \o declared.classes[n].class \o " in " \o filename]

\* lines 743-749, 755-761: the appends of the loop, given what every line declares
AppendDeclarations(analysis, filename, declared) ==
    [analysis EXCEPT
       !.new_functions_detected =
           @ \o Flatten([n \in 1..Len(declared) |-> declared[n].functions]),
       !.new_classes_detected =
           @ \o Flatten([n \in 1..Len(declared) |-> declared[n].classes]),
       !.meaningfulness_signals =
           @ \o Flatten([n \in 1..Len(declared) |-> SignalsOfLine(filename, declared[n])])]

\* lines 736-761: the loop over patch_lines
DeclarationsOfLines(analysis, filename, patch_lines) ==
    AppendDeclarations(analysis, filename,
        Listed([n \in 1..Len(patch_lines) |-> DeclarationsOfLine(filename, patch_lines[n])]))

\* line 716
AddedLines(patch_lines) ==
    LET added == SelectSeq(patch_lines,
                           LAMBDA line : StartsWith(line, "+") /\ ~StartsWith(line, "+++"))
    IN  [n \in 1..Len(added) |-> Strip(From(added[n], 2))]

\* variant of EnvironmentAdjustment: three substantial lines are enough
EnvironmentAdjustment_ThreeLines(analysis, file_data, added_lines) ==
    LET filename_lower    == Lower(file_data.filename)
        substantial_lines == SelectSeq(added_lines,
                                       LAMBDA l : Len(l) > 20 /\ ~StartsWith(l, "#"))
    IN  IF IsDockerEnv(file_data.filename) /\ file_data.additions > 5
           /\ Len(substantial_lines) > 2
        THEN [analysis EXCEPT
                !.environment_adjustments =
                    Append(@, [file |-> file_data.filename,
                               type |-> IF Contains(filename_lower, "docker")
                                           \/ Contains(filename_lower, "k8s")
                                        THEN "docker/kubernetes" ELSE "deployment",
                               additions |-> file_data.additions]),
                !.meaningfulness_signals =
                    Append(@, "Environment adjustment in " \o file_data.filename)]
        ELSE analysis

\* lines 763-773
EnvironmentAdjustment(analysis, file_data, added_lines) ==
    LET filename_lower    == Lower(file_data.filename)
        substantial_lines == SelectSeq(added_lines,
                                       LAMBDA l : Len(l) > 20 /\ ~StartsWith(l, "#"))
    IN  IF IsDockerEnv(file_data.filename) /\ file_data.additions > 5
           /\ Len(substantial_lines) > 3
        THEN [analysis EXCEPT
                !.environment_adjustments =
                    Append(@, [file |-> file_data.filename,
                               type |-> IF Contains(filename_lower, "docker")
                                           \/ Contains(filename_lower, "k8s")
                                        THEN "docker/kubernetes" ELSE "deployment",
                               additions |-> file_data.additions]),
                !.meaningfulness_signals =
                    Append(@, "Environment adjustment in " \o file_data.filename)]
        ELSE analysis

\* lines 779-781
logic_indicators == <<"if ", "for ", "while ", "return ", "await ", "async ",
                      "try:", "except:", "catch ", "throw ", "&&", "||",
                      "map(", "filter(", "reduce(", "forEach(">>

\* variant of EnhancedFunction: ten additions are enough
EnhancedFunction_AtLeast10(analysis, file_data, added_lines) ==
    IF IsCodeFile(file_data.filename) /\ file_data.status = "modified"
       /\ file_data.additions >= 10
       /\ \E n \in 1..Len(added_lines) : ContainsAny(added_lines[n], logic_indicators)
    THEN [analysis EXCEPT
            !.enhanced_functions =
                Append(@, [file |-> file_data.filename, additions |-> file_data.additions]),
            !.meaningfulness_signals =
                Append(@, "Enhanced logic in " \o file_data.filename)]
    ELSE analysis

\* lines 775-789
EnhancedFunction(analysis, file_data, added_lines) ==
    IF IsCodeFile(file_data.filename) /\ file_data.status = "modified"
       /\ file_data.additions > 10
       /\ \E n \in 1..Len(added_lines) : ContainsAny(added_lines[n], logic_indicators)
    THEN [analysis EXCEPT
            !.enhanced_functions =
                Append(@, [file |-> file_data.filename, additions |-> file_data.additions]),
            !.meaningfulness_signals =
                Append(@, "Enhanced logic in " \o file_data.filename)]
    ELSE analysis

\* variant of TrackAdditions: a code file that is also a configuration file is counted
\* in both counters
TrackAdditions_Both(analysis, file_data) ==
    [analysis EXCEPT
       !.code_additions_count =
           IF IsCodeFile(file_data.filename) THEN @ + file_data.additions ELSE @,
       !.config_additions_count =
           IF IsConfigFile(file_data.filename) THEN @ + file_data.additions ELSE @]

\* lines 702-706
TrackAdditions(analysis, file_data) ==
    IF IsCodeFile(file_data.filename)
    THEN [analysis EXCEPT !.code_additions_count = @ + file_data.additions]
    ELSE IF IsConfigFile(file_data.filename)
    THEN [analysis EXCEPT !.config_additions_count = @ + file_data.additions]
    ELSE analysis

\* variant of RecordConfigOnly: the file is skipped before it is recorded
RecordConfigOnly_Skipped(analysis, file_data) == analysis

\* lines 710-711
RecordConfigOnly(analysis, file_data) ==
    IF IsConfigFile(file_data.filename)
    THEN [analysis EXCEPT !.config_only_changes = Append(@, file_data.filename)]
    ELSE analysis

\* lines 685-789: one iteration of the loop over the files, on the analysis so far
PatchContentIteration(analysis, file_data) ==
    IF file_data.patch = "" THEN analysis
    ELSE LET tracked == TrackAdditions(analysis, file_data)
         IN  IF ~IsCodeFile(file_data.filename) /\ ~IsDockerEnv(file_data.filename)
             THEN RecordConfigOnly(tracked, file_data)
             ELSE LET patch_lines == Split(file_data.patch, "\n")
                      added_lines == AddedLines(patch_lines)
                  IN  EnhancedFunction(
                        EnvironmentAdjustment(
                          DeclarationsOfLines(tracked, file_data.filename, patch_lines),
                          file_data, added_lines),
                        file_data, added_lines)

\* what one iteration adds for each sample file, computed once
SamplePatchContent ==
    Tabulated([f \in FileSamples \cup DocumentSamples |->
                 PatchContentIteration(EmptyPatchAnalysis, f)])

\* what one iteration adds for a file
PatchContentAlone(file_data) ==
    IF file_data \in DOMAIN SamplePatchContent THEN SamplePatchContent[file_data]
    ELSE PatchContentIteration(EmptyPatchAnalysis, file_data)

\* the analysis so far extended by what a file alone gives
Extended(analysis, alone) ==
    [new_functions_detected      |-> analysis.new_functions_detected \o alone.new_functions_detected,
     new_classes_detected        |-> analysis.new_classes_detected \o alone.new_classes_detected,
     enhanced_functions          |-> analysis.enhanced_functions \o alone.enhanced_functions,
     environment_adjustments     |-> analysis.environment_adjustments \o alone.environment_adjustments,
     config_only_changes         |-> analysis.config_only_changes \o alone.config_only_changes,
     code_additions_count        |-> analysis.code_additions_count + alone.code_additions_count,
     config_additions_count      |-> analysis.config_additions_count + alone.config_additions_count,
     has_meaningful_code_changes |-> analysis.has_meaningful_code_changes,
     meaningfulness_signals      |-> analysis.meaningfulness_signals \o alone.meaningfulness_signals]

\* lines 685-789: an iteration only appends to the lists and adds to the counters
PatchContentOfFile(analysis, file_data) == Extended(analysis, PatchContentAlone(file_data))

RECURSIVE PatchContentLoop(_, _)
PatchContentLoop(analysis, files) ==
    IF files = <<>> THEN analysis
    ELSE PatchContentLoop(PatchContentOfFile(analysis, Head(files)), Tail(files))

\* lines 692-693, 703-706, 765: a file with a patch whose additions is not a number
\* raises TypeError in += when it is a code or configuration file, and in additions > 5
\* when it is an environment file; any other file is left at line 712 before the count
\* is used
PatchContentRaises(file_data) ==
    /\ file_data.patch # ""
    /\ NotANumber(file_data, "additions")
    /\ \/ IsCodeFile(file_data.filename)
       \/ IsConfigFile(file_data.filename)
       \/ IsDockerEnv(file_data.filename)

\* lines 654-811
analyze_patch_content(c) ==
    IF Lacks(c, "files") THEN EmptyPatchAnalysis
    ELSE IF \E n \in 1..Len(c.files) : PatchContentRaises(c.files[n]) THEN TypeError
    ELSE LET looped == PatchContentLoop(EmptyPatchAnalysis, c.files)
         IN  [looped EXCEPT !.has_meaningful_code_changes = HasMeaningfulCodeChanges(looped)]

(***************************************************************************)
(* analyze_commit_content                                                  *)
(***************************************************************************)
\* a commit as the comparison API serves it
Commit(message) == [commit |-> [message |-> message]]

\* line 833: commit.get('commit', {}).get('message', '')
MessageOf(commit) ==
    IF "commit" \in DOMAIN commit /\ "message" \in DOMAIN commit.commit
    THEN commit.commit.message ELSE ""

\* line 835: the first line of the message, stripped
TitleOf(commit) == Strip(Split(MessageOf(commit), "\n")[1])

\* variant of TitlesOf: every commit is read, not only the first 20
TitlesOf_All(commits) ==
    SelectSeq(Listed([i \in 1..Len(commits) |-> TitleOf(commits[i])]), LAMBDA t : t # "")

\* lines 831-838: the non-empty titles of the first 20 commits
TitlesOf(commits) ==
    LET first == Take(commits, 20)
    IN  SelectSeq(Listed([i \in 1..Len(first) |-> TitleOf(first[i])]), LAMBDA t : t # "")

\* (\w+(?:\s+\w+){0,2})
FeatureWords == Grp(Cat(<<Word, Rpt(Cat(<<Spaces1, Word>>), 0, 2)>>))

\* lines 847-854
feature_patterns ==
    << Cat(<<Lit("add"), Opt(AnyOf(<<"ed", "ing">>)), Spaces1, FeatureWords>>),
       Cat(<<Lit("implement"), Opt(AnyOf(<<"ed", "ing">>)), Spaces1, FeatureWords>>),
       Cat(<<Lit("support"), Spaces1, Lit("for"), Spaces1, FeatureWords>>),
       Cat(<<Lit("new"), Spaces1, FeatureWords>>),
       Cat(<<Lit("enable"), Opt(Lit("d")), Spaces1, FeatureWords>>),
       Cat(<<Lit("integrate"), Opt(Lit("d")), Spaces1, FeatureWords>>) >>

\* re.findall for a pattern with one group: the text of the group of every match
FirstGroups(found) == Listed([n \in 1..Len(found) |-> found[n][1]])

FindGroup(r, s) == FirstGroups(FindAll(r, s))

\* lines 856-859: up to three matches of every pattern, in pattern order
MentionedFeatures(combined_text) ==
    Flatten([k \in 1..Len(feature_patterns) |->
               Take(FindGroup(feature_patterns[k], combined_text), 3)])

\* line 862
commit_stop_words == {"the", "a", "an", "and", "or", "but", "in", "on", "at", "to", "for",
                      "with", "tests", "test"}

\* lines 863-866
KeyFeatures(mentioned_features) ==
    LET first    == Take(mentioned_features, 5)
        stripped == Listed([i \in 1..Len(first) |-> Strip(first[i])])
    IN  SelectSeq(stripped, LAMBDA f : f # "" /\ f \notin commit_stop_words /\ Len(f) > 3)

\* lines 869-878, in the order of the dict
focus_patterns ==
    << [category |-> "new_capabilities",
        keywords |-> <<"add support", "implement", "introduce", "new feature", "enable", "allow">>],
       [category |-> "improvements",
        keywords |-> <<"improve", "enhance", "optimize", "better", "upgrade", "modernize">>],
       [category |-> "bug_fixes",
        keywords |-> <<"fix", "resolve", "patch", "correct", "repair">>],
       [category |-> "customization",
        keywords |-> <<"customize", "adapt", "tailor", "modify for", "adjust">>],
       [category |-> "integration",
        keywords |-> <<"integrate", "connect", "link", "bridge", "compatible">>],
       [category |-> "security",
        keywords |-> <<"security", "secure", "vulnerability", "auth", "permission">>],
       [category |-> "performance",
        keywords |-> <<"performance", "faster", "speed", "efficiency", "scale">>],
       [category |-> "refactoring",
        keywords |-> <<"refactor", "restructure", "reorganize", "clean up">>] >>

RECURSIVE SumCounts(_, _)
\* line 882: sum(combined_text.count(keyword) for keyword in keywords)
SumCounts(combined_text, keywords) ==
    IF keywords = <<>> THEN 0
    ELSE Count(combined_text, Head(keywords)) + SumCounts(combined_text, Tail(keywords))

\* lines 880-884: the categories of positive score with their scores, in dict order
FocusScores(combined_text) ==
    LET scored == Listed([k \in 1..Len(focus_patterns) |->
                            [key   |-> focus_patterns[k].category,
                             count |-> SumCounts(combined_text, focus_patterns[k].keywords)]])
    IN  SelectSeq(scored, LAMBDA e : e.count > 0)

\* variant of CommitContent: the categories of positive score are taken in the order
\* of the dict, without sorting them by score
CommitContent_Unsorted(commits) ==
    LET all_messages  == TitlesOf(commits)
        combined_text == Lower(Join(" ", all_messages))
        focus_scores  == Take(FocusScores(combined_text), 3)
    IN  IF all_messages = <<>> THEN EmptyCommitAnalysis
        ELSE [development_focus      |-> Listed([n \in 1..Len(focus_scores) |->
                                                   focus_scores[n].key]),
              key_features_mentioned |-> KeyFeatures(MentionedFeatures(combined_text)),
              specific_actions       |-> <<>>,
              commit_sample          |-> all_messages]

\* lines 828-890, for a comparison that has 'commits'
CommitContent(commits) ==
    LET all_messages  == TitlesOf(commits)
        combined_text == Lower(Join(" ", all_messages))
    IN  IF all_messages = <<>> THEN EmptyCommitAnalysis
        ELSE [development_focus      |-> MostCommon(FocusScores(combined_text), 3),
              key_features_mentioned |-> KeyFeatures(MentionedFeatures(combined_text)),
              specific_actions       |-> <<>>,
              commit_sample          |-> all_messages]

(***************************************************************************)
(* Commit lists served by the comparison API, as inputs                    *)
(***************************************************************************)
AddDocker    == Commit("Add docker support for deployment\n\nRuns the service in a container.")
FixLogin     == Commit("Fix login bug")
IntegratePay == Commit("Integrate payment gateway and enable auth checks")
BlankTitle   == Commit("  \nbody only")
NoMessage    == [sha |-> "0a1b2c"]

CommitListSamples ==
    { <<>>,
      <<FixLogin>>,
      <<BlankTitle, NoMessage>>,
      <<AddDocker, IntegratePay, FixLogin>>,
      Rep(20, FixLogin) \o <<IntegratePay>> }

\* CommitContent of the sample commit lists, computed once
SampleCommitContent == Tabulated([cs \in CommitListSamples |-> CommitContent(cs)])

\* lines 813-890
analyze_commit_content(c) ==
    IF Lacks(c, "commits") THEN EmptyCommitAnalysis
    ELSE IF c.commits \in CommitListSamples THEN SampleCommitContent[c.commits]
    ELSE CommitContent(c.commits)

(***************************************************************************)
(* analyze_readme_deeply                                                   *)
(***************************************************************************)
\* lines 405-415
EmptyReadmeAnalysis ==
    [stated_purpose         |-> None,
     use_cases              |-> <<>>,
     target_audience        |-> None,
     industry_terms         |-> <<>>,
     problems_solved        |-> <<>>,
     integrations_mentioned |-> <<>>,
     deployment_targets     |-> <<>>,
     added_sections         |-> <<>>,
     business_context       |-> None]

\* the truth value of an Optional[str]: neither None nor ''
Truthy(s) == s # None /\ s # ""

\* [m.strip() for m in matches]
Stripped(matches) == Listed([i \in 1..Len(matches) |-> Strip(matches[i])])

\* lines 421-431: the lines of the fork's README that are longer than 10 characters
\* when stripped and that, lowered and stripped, are no lowered line of the original;
\* the whole README when there is no original
NewContent(original_readme, fork_readme) ==
    IF Truthy(original_readme)
    THEN LET lowered        == Listed(Split(Lower(original_readme), "\n"))
             original_lines == {lowered[i] : i \in 1..Len(lowered)}
             fork_lines     == Listed(Split(fork_readme, "\n"))
         IN  Join("\n", SelectSeq(fork_lines,
                                  LAMBDA line : /\ Strip(Lower(line)) \notin original_lines
                                                /\ Len(Strip(line)) > 10))
    ELSE fork_readme

\* ([^.!?\n]{10,100})
Clause == Grp(Rpt(NotIn({".", "!", "?", "\n"}), 10, 100))

\* ([^#\n]{20,200})
Passage == Grp(Rpt(NotIn({"#", "\n"}), 20, 200))

\* (\w+(?:\s+\w+)?)
OneOrTwoWords == Grp(Cat(<<Word, Opt(Cat(<<Spaces1, Word>>))>>))

\* lines 440-445
purpose_patterns ==
    << Cat(<<AnyOf(<<"this fork", "this version", "this project", "we">>), Spaces1,
             AnyOf(<<"is", "are">>), Spaces1,
             AnyOf(<<"designed", "built", "created", "intended">>), Spaces1,
             AnyOf(<<"for", "to">>), Spaces1, Clause>>),
       Cat(<<AnyOf(<<"purpose", "goal", "aim">>), Lit(":"), Spaces0, Clause>>),
       Cat(<<AnyOf(<<"why we forked", "reason for fork">>), Lit(":"), Spaces0, Clause>>),
       Cat(<<AnyOf(<<"optimized", "tailored", "customized">>), Spaces1, Lit("for"), Spaces1,
             Clause>>) >>

\* lines 454-459
use_case_patterns ==
    << Cat(<<Lit("use case"), Opt(In({"s"})), Lit(":"), Spaces0, Passage>>),
       Cat(<<AnyOf(<<"ideal", "perfect", "best">>), Spaces1, Lit("for"), Spaces1, Clause>>),
       Cat(<<AnyOf(<<"useful", "helpful">>), Spaces1, AnyOf(<<"for", "when", "if">>), Spaces1,
             Clause>>),
       Cat(<<Lit("example"), Opt(In({"s"})), Lit(":"), Spaces0, Passage>>) >>

\* lines 466-469; the second pattern has no group and findall returns the whole match
audience_patterns ==
    << Cat(<<AnyOf(<<"for", "targeting", "aimed at">>), Spaces1,
             Grp(AnyOf(<<"enterprises", "companies", "organizations", "teams", "developers",
                         "researchers", "data scientists", "ml engineers", "healthcare",
                         "financial", "government">>))>>),
       Grp(Cat(<<AnyOf(<<"enterprise", "production", "industrial">>), Spaces1,
                 AnyOf(<<"use", "deployment", "environment">>)>>)) >>

\* lines 478-487, in the order of the dict
industry_keywords ==
    << [industry |-> "healthcare",
        keywords |-> <<"patient", "clinical", "medical", "hipaa", "healthcare", "hospital",
                       "diagnosis", "treatment">>],
       [industry |-> "finance",
        keywords |-> <<"trading", "financial", "banking", "payment", "transaction", "fraud",
                       "risk", "compliance", "kyc", "aml">>],
       [industry |-> "enterprise",
        keywords |-> <<"enterprise", "corporate", "b2b", "saas", "multi-tenant", "sso", "ldap",
                       "active directory">>],
       [industry |-> "ml/ai",
        keywords |-> <<"machine learning", "deep learning", "neural network", "training",
                       "inference", "model serving">>],
       [industry |-> "cloud",
        keywords |-> <<"aws", "azure", "gcp", "kubernetes", "docker", "containerized",
                       "microservices">>],
       [industry |-> "government",
        keywords |-> <<"government", "public sector", "federal", "compliance", "air-gapped",
                       "classified">>],
       [industry |-> "education",
        keywords |-> <<"education", "learning", "student", "academic", "research",
                       "university">>],
       [industry |-> "iot",
        keywords |-> <<"iot", "sensor", "edge", "embedded", "device", "hardware">>] >>

\* lines 497-501
problem_patterns ==
    << Cat(<<Alt(<<Cat(<<Lit("solve"), Opt(In({"s"}))>>), Cat(<<Lit("addresse"), Opt(In({"s"}))>>),
                   Cat(<<Lit("fixe"), Opt(In({"s"}))>>), Cat(<<Lit("handle"), Opt(In({"s"}))>>)>>),
             Spaces1, Opt(Cat(<<Lit("the"), Spaces1>>)),
             AnyOf(<<"problem", "issue", "challenge">>), Spaces1, Lit("of"), Spaces1, Clause>>),
       Cat(<<AnyOf(<<"enable", "allow", "support">>), Opt(In({"s"})), Spaces1, Clause>>),
       Cat(<<AnyOf(<<"without", "no longer need">>), Spaces1, Clause>>) >>

\* lines 508-512
integration_patterns ==
    << Cat(<<Lit("integrat"), AnyOf(<<"e", "es", "ion">>), Spaces1,
             Opt(Cat(<<Lit("with"), Spaces1>>)), OneOrTwoWords>>),
       Cat(<<Lit("connect"), Opt(AnyOf(<<"s", "ion">>)), Spaces1,
             Opt(Cat(<<Lit("to"), Spaces1>>)), OneOrTwoWords>>),
       Cat(<<Lit("support"), Opt(Lit("s")), Spaces1, OneOrTwoWords, Spaces1,
             AnyOf(<<"integration", "api", "platform">>)>>) >>

\* line 520
readme_stop_words == {"the", "with", "for", "and", "our", "your", "this", "that", "other"}

\* lines 524-525
deployment_keywords == <<"aws", "azure", "gcp", "kubernetes", "k8s", "docker", "openshift",
                         "on-premise", "on-prem", "cloud", "hybrid", "air-gapped", "offline">>

\* line 529: ^#{1,3}\s+(.+)$
section_pattern ==
    Cat(<<Bol, Rpt(In({"#"}), 1, 3), Spaces1, Grp(Plus(NotIn({"\n"}))), Eol>>)

RECURSIVE FirstMatch(_, _)
\* lines 447-451 and 471-475: matches[0] of the first pattern that has a match, None if
\* no pattern has one
FirstMatch(patterns, text) ==
    IF patterns = <<>> THEN None
    ELSE LET matches == FindGroup(Head(patterns), text)
         IN  IF matches # <<>> THEN matches[1] ELSE FirstMatch(Tail(patterns), text)

\* lines 461-463 and 503-505: the first n matches of every pattern, stripped, in pattern
\* order
FirstOfEach(patterns, text, n) ==
    Stripped(Flatten([k \in 1..Len(patterns) |-> Take(FindGroup(patterns[k], text), n)]))

\* lines 514-517: the matches of every pattern that are longer than 3 characters when
\* stripped
IntegrationsOf(text) ==
    SelectSeq(Stripped(Flatten([k \in 1..Len(integration_patterns) |->
                                  FindGroup(integration_patterns[k], text)])),
              LAMBDA m : Len(m) > 3)

\* lines 489-494
IndustryTerms(text) ==
    LET detected == SelectSeq(industry_keywords, LAMBDA e : ContainsAny(text, e.keywords))
    IN  Take(Listed([i \in 1..Len(detected) |-> detected[i].industry]), 3)

\* variant of BusinessContext: the first use case goes before the stated purpose
BusinessContext_UseCaseFirst(analysis) ==
    IF analysis.use_cases # <<>>
    THEN "Use case: " \o analysis.use_cases[1]
    ELSE IF Truthy(analysis.stated_purpose)
    THEN "Explicitly states: " \o analysis.stated_purpose
    ELSE IF analysis.industry_terms # <<>>
    THEN "Targeted for " \o Join(", ", Take(analysis.industry_terms, 2)) \o " applications"
    ELSE IF analysis.problems_solved # <<>>
    THEN "Addresses: " \o analysis.problems_solved[1]
    ELSE None

\* variant of BusinessContext: the use cases are not looked at
BusinessContext_WithoutUseCase(analysis) ==
    IF Truthy(analysis.stated_purpose)
    THEN "Explicitly states: " \o analysis.stated_purpose
    ELSE IF analysis.industry_terms # <<>>
    THEN "Targeted for " \o Join(", ", Take(analysis.industry_terms, 2)) \o " applications"
    ELSE IF analysis.problems_solved # <<>>
    THEN "Addresses: " \o analysis.problems_solved[1]
    ELSE None

\* lines 532-541
BusinessContext(analysis) ==
    IF Truthy(analysis.stated_purpose)
    THEN "Explicitly states: " \o analysis.stated_purpose
    ELSE IF analysis.use_cases # <<>>
    THEN "Use case: " \o analysis.use_cases[1]
    ELSE IF analysis.industry_terms # <<>>
    THEN "Targeted for " \o Join(", ", Take(analysis.industry_terms, 2)) \o " applications"
    ELSE IF analysis.problems_solved # <<>>
    THEN "Addresses: " \o analysis.problems_solved[1]
    ELSE None

\* lines 437-530: what the patterns and keyword lists find in the new content
ReadmeFindings(new_content, new_content_lower, purpose) ==
    [stated_purpose         |-> IF purpose = None THEN None ELSE Strip(purpose),
     use_cases              |-> FirstOfEach(use_case_patterns, new_content_lower, 3),
     target_audience        |-> FirstMatch(audience_patterns, new_content_lower),
     industry_terms         |-> IndustryTerms(new_content_lower),
     problems_solved        |-> FirstOfEach(problem_patterns, new_content_lower, 2),
     integrations_mentioned |-> SelectSeq(Take(IntegrationsOf(new_content_lower), 5),
                                          LAMBDA i : i \notin readme_stop_words),
     deployment_targets     |-> SelectSeq(deployment_keywords,
                                          LAMBDA kw : Contains(new_content_lower, kw)),
     added_sections         |-> Stripped(Take(FirstGroups(FindAllMultiline(section_pattern,
                                                                           new_content)), 5)),
     business_context       |-> None]

\* lines 433-543, for the new content of the README
ReadmeContent(new_content) ==
    IF new_content = "" \/ Len(new_content) < 50 THEN EmptyReadmeAnalysis
    ELSE LET new_content_lower == Lower(new_content)
             found == ReadmeFindings(new_content, new_content_lower,
                                     FirstMatch(purpose_patterns, new_content_lower))
         IN  [found EXCEPT !.business_context = BusinessContext(found)]

\* lines 417-543.  A README is None or a string.
ReadmeAnalysis(original_readme, fork_readme) ==
    IF ~Truthy(fork_readme) THEN EmptyReadmeAnalysis
    ELSE ReadmeContent(NewContent(original_readme, fork_readme))

(***************************************************************************)
(* Two more upstream repositories, for the README delta: upstream/gadget,  *)
(* which has a README, and upstream/gizmo, which has none.  Each has one   *)
(* fork per choice of lines from a pool; the README of the fork is the     *)
(* chosen lines, in the order of the pool.                                 *)
(***************************************************************************)
\* the most lines of the pool a fork's README is made of
MaxReadmeLines == 7

\* the lines, each with its base64 text; every line is a multiple of 3 bytes long, so
\* that the base64 text of a README is the base64 texts of its lines put together
ReadmeLinePool ==
    << [text   |-> "This fork is designed for scheduling of delivery vans in towns\n",
        base64 |-> "VGhpcyBmb3JrIGlzIGRlc2lnbmVkIGZvciBzY2hlZHVsaW5nIG9mIGRlbGl2ZXJ5IHZhbnMgaW4gdG93bnMK"],
       [text   |-> "Ideal for planners that batch their morning routes\n",
        base64 |-> "SWRlYWwgZm9yIHBsYW5uZXJzIHRoYXQgYmF0Y2ggdGhlaXIgbW9ybmluZyByb3V0ZXMK"],
       [text   |-> "    docker compose up --build gadget-server --detach --wait\n",
        base64 |-> "ICAgIGRvY2tlciBjb21wb3NlIHVwIC0tYnVpbGQgZ2FkZ2V0LXNlcnZlciAtLWRldGFjaCAtLXdhaXQK"],
       [text   |-> "A SMALL GADGET LIBRARY FOR BIKES\n",
        base64 |-> "QSBTTUFMTCBHQURHRVQgTElCUkFSWSBGT1IgQklLRVMK"],
       [text   |-> "## Setup\n",
        base64 |-> "IyMgU2V0dXAK"],
       [text   |-> "It allows printing of route sheets at depots\n",
        base64 |-> "SXQgYWxsb3dzIHByaW50aW5nIG9mIHJvdXRlIHNoZWV0cyBhdCBkZXBvdHMK"],
       [text   |-> "Install with pip install gadget    \n",
        base64 |-> "SW5zdGFsbCB3aXRoIHBpcCBpbnN0YWxsIGdhZGdldCAgICAK"],
       [text   |-> "Tested against medical record exports by nurses\n",
        base64 |-> "VGVzdGVkIGFnYWluc3QgbWVkaWNhbCByZWNvcmQgZXhwb3J0cyBieSBudXJzZXMK"] >>

\* the README of upstream/gadget: it has the third line of the pool as it is, the
\* fourth in lower case and the seventh without the spaces at its end
GadgetReadme ==
    [text   |-> "# Gadget\nA small gadget library for bikes\n    docker compose up --build gadget-server --detach --wait\nInstall with pip install gadget\n",
     base64 |-> "IyBHYWRnZXQKQSBzbWFsbCBnYWRnZXQgbGlicmFyeSBmb3IgYmlrZXMKICAgIGRvY2tlciBjb21wb3NlIHVwIC0tYnVpbGQgZ2FkZ2V0LXNlcnZlciAtLWRldGFjaCAtLXdhaXQKSW5zdGFsbCB3aXRoIHBpcCBpbnN0YWxsIGdhZGdldAo="]

\* the choices of lines, each the set of the places of its lines in the pool
ReadmePicks == SUBSET (1..MaxReadmeLines)

\* the chosen lines, in the order of the pool
PickedLines(pick) ==
    SelectSeq(ReadmeLinePool,
              LAMBDA line : \E n \in pick : ReadmeLinePool[n] = line)

\* the README made of the chosen lines
PickedText(pick) ==
    Join("", Listed([n \in 1..Len(PickedLines(pick)) |-> PickedLines(pick)[n].text]))

\* its base64 text, as GitHub serves it
PickedBase64(pick) ==
    Join("", Listed([n \in 1..Len(PickedLines(pick)) |-> PickedLines(pick)[n].base64]))

\* the owner of the fork with the chosen lines: g or z, then the places of the lines
PickedOwner(prefix, pick) ==
    prefix \o Join("", SelectSeq(<<"1", "2", "3", "4", "5", "6", "7", "8">>,
                                 LAMBDA digit : \E n \in pick : ToString(n) = digit))

\* what GitHub serves for one fork, as pairs of a URL and a body: the repository, its
\* comparison with the upstream, and its README unless no line was chosen
PickedFork(upstream, prefix, pick) ==
    LET owner == PickedOwner(prefix, pick)
    IN  { <<"https://api.github.com/repos/" \o owner \o "/widget", [default_branch |-> "main"]>>,
          <<"https://api.github.com/repos/upstream/" \o upstream \o "/compare/main..."
              \o owner \o ":main",
            [files |-> <<Readme>>, commits |-> <<FixLogin>>]>> }
        \cup (IF pick = {} THEN {}
              ELSE { <<"https://api.github.com/repos/" \o owner \o "/widget/readme",
                       [content |-> PickedBase64(pick)]>> })

\* the table of a set of pairs of a URL and a body
TableOf(served) ==
    Tabulated([url \in { pair[1] : pair \in served } |->
                 (CHOOSE pair \in served : pair[1] = url)[2]])

GadgetGitHub ==
    TableOf({ <<"https://api.github.com/repos/upstream/gadget", [default_branch |-> "main"]>>,
              <<"https://api.github.com/repos/upstream/gizmo", [default_branch |-> "main"]>>,
              <<"https://api.github.com/repos/upstream/gadget/readme",
                [content |-> GadgetReadme.base64]>> }
            \cup UNION { PickedFork("gadget", "g", pick) : pick \in ReadmePicks }
            \cup UNION { PickedFork("gizmo", "z", pick) : pick \in ReadmePicks })

GadgetBase64 ==
    (GadgetReadme.base64 :> GadgetReadme.text)
    @@ Tabulated([content \in { PickedBase64(pick) : pick \in ReadmePicks \ {{}} } |->
                    LET pick == CHOOSE p \in ReadmePicks : PickedBase64(p) = content
                    IN  PickedText(pick)])

(***************************************************************************)
(* GitHub as the requests of one run see it: a fixed table from the URL of *)
(* a request to the parsed body of its response.  A URL outside the table  *)
(* is answered 404.  The upstream repository is upstream/widget; its forks *)
(* are acme, dev1, ..., dev6 and lab.                                      *)
(***************************************************************************)
\* line 41
base_url == "https://api.github.com"

\* base64.b64decode(content).decode('utf-8') (lines 247 and 261) of the contents the
\* table serves; None stands for the exception of lines 248 and 262
Base64Text ==
    ("IyBXaWRnZXQKQSBzbWFsbCB3aWRnZXQgbGlicmFyeS4KSW5zdGFsbCB3aXRoIHBpcCBpbnN0YWxsIHdpZGdldC4KCiMjIExpY2Vuc2UKTUlU"
       :> "# Widget\nA small widget library.\nInstall with pip install widget.\n\n## License\nMIT")
    @@ ("IyBXaWRnZXQKQSBzbWFsbCB3aWRnZXQgbGlicmFyeS4KCiMjIEFib3V0IHRoaXMgZm9yawpUaGlzIGZvcmsgaXMgZGVzaWduZWQgZm9yIGhvc3BpdGFsIHNjaGVkdWxpbmcgdGVhbXMuIEl0IGludGVncmF0ZXMgd2l0aCBFcGljIHN5c3RlbXMgYW5kIHN1cHBvcnRzIEZISVIgYXBpIGFjY2VzcyEKUHVycG9zZTogcnVuIHdpZGdldHMgaW5zaWRlIGNsaW5pY2FsIG5ldHdvcmtzCg=="
       :> "# Widget\nA small widget library.\n\n## About this fork\nThis fork is designed for hospital scheduling teams. It integrates with Epic systems and supports FHIR api access!\nPurpose: run widgets inside clinical networks\n")
    @@ ("IyBXaWRnZXQgZm9yIGJhbmtzClVzZSBjYXNlczogYmF0Y2ggc2V0dGxlbWVudCBvZiBjYXJkIHBheW1lbnRzIG92ZXJuaWdodCAjIGZhc3QKSWRlYWwgZm9yICAgdGVhbXMgdGhhdCBuZWVkIGF1ZGl0IHRyYWlscy4gVXNlZnVsIHdoZW4gdGhlIGxlZGdlciBpcyBvZmZsaW5lPwpFeGFtcGxlczogbmlnaHRseSByZWNvbmNpbGlhdGlvbiBqb2JzCiMjIyBEZXBsb3kKUnVucyBvbiBBV1MgYW5kIGt1YmVybmV0ZXMgZm9yIGVudGVycHJpc2VzLCBwcm9kdWN0aW9uIHVzZSBvbmx5Lgo="
       :> "# Widget for banks\nUse cases: batch settlement of card payments overnight # fast\nIdeal for   teams that need audit trails. Useful when the ledger is offline?\nExamples: nightly reconciliation jobs\n### Deploy\nRuns on AWS and kubernetes for enterprises, production use only.\n")
    @@ ("IyBEZXBsb3ltZW50ClJlcXVpcmVzOiBrdWJlcm5ldGVzIDEuMjQgb3IgbGF0ZXIgYW5kIGRvY2tlcgpZb3UgbmVlZCBhIHJlZ2lzdHJ5IGFjY291bnQgZm9yIHRoZSBpbWFnZXMuCkdvYWw6IHJ1biB0aGUgd2lkZ2V0IHNlcnZpY2Ugb24gQVdTIGZvciBob3NwaXRhbCB0ZWFtcwo="
       :> "# Deployment\nRequires: kubernetes 1.24 or later and docker\nYou need a registry account for the images.\nGoal: run the widget service on AWS for hospital teams\n")
    @@ ("W21haW5dCm1vZGUgPSBmYXN0Cg==" :> "[main]\nmode = fast\n")
    @@ ("IyBBUEkKVGhpcyBndWlkZSBjb3ZlcnMgaW50ZWdyYXRpb24gd2l0aCBTYWxlc2ZvcmNlIENSTSBhbmQgaW50ZWdyYXRpbmcgU2xhY2sgYWxlcnRzLgpXZSBhaW0gdG8ga2VlcCBldmVyeSBlbmRwb2ludCBzdGFibGUgYWNyb3NzIHJlbGVhc2VzLgpCdWlsdCBmb3IgcGFydG5lciB0ZWFtcy4K"
       :> "# API\nThis guide covers integration with Salesforce CRM and integrating Slack alerts.\nWe aim to keep every endpoint stable across releases.\nBuilt for partner teams.\n")
    @@ ("/w==" :> None)
    @@ GadgetBase64

GitHub ==
    \* owners
    ("https://api.github.com/users/acme"
       :> [login |-> "acme", type |-> "Organization", name |-> " Acme Corp ",
           blog |-> "acme.example.com", public_repos |-> 12, followers |-> 3])
    @@ ("https://api.github.com/orgs/acme"
       :> [login |-> "acme", name |-> "Acme Corp", html_url |-> "https://github.com/acme",
           blog |-> "acme.example.com"])
    @@ ("https://api.github.com/users/dev4"
       :> [login |-> "dev4", type |-> "User", name |-> "Dee", company |-> "@acme",
           public_repos |-> 4, followers |-> 0])
    @@ ("https://api.github.com/users/lab"
       :> [login |-> "lab", type |-> "User", company |-> "Lab Inc",
           blog |-> "https://lab.example.org", public_repos |-> 2, followers |-> 1])
    @@ ("https://api.github.com/users/dev3" :> [login |-> "dev3", type |-> "User", name |-> ""])
    \* repositories
    @@ ("https://api.github.com/repos/upstream/widget" :> [default_branch |-> "main"])
    @@ ("https://api.github.com/repos/acme/widget" :> [default_branch |-> "develop"])
    @@ ("https://api.github.com/repos/dev1/widget" :> [name |-> "widget"])
    @@ ("https://api.github.com/repos/dev3/widget" :> [default_branch |-> "main"])
    @@ ("https://api.github.com/repos/dev4/widget" :> [default_branch |-> "main"])
    @@ ("https://api.github.com/repos/dev5/widget" :> [default_branch |-> "main"])
    @@ ("https://api.github.com/repos/dev6/widget" :> [default_branch |-> "main"])
    @@ ("https://api.github.com/repos/lab/widget" :> [default_branch |-> "main"])
    \* comparisons
    @@ ("https://api.github.com/repos/upstream/widget/compare/main...acme:develop"
       :> [files   |-> <<PyOneFunction, DeploymentGuide, SettingsConfig>>,
           commits |-> <<AddDocker, IntegratePay, FixLogin>>])
    @@ ("https://api.github.com/repos/upstream/widget/compare/main...dev1:main"
       :> [files |-> <<JsonConfig>>, commits |-> <<>>])
    @@ ("https://api.github.com/repos/upstream/widget/compare/main...dev3:main" :> EmptyDict)
    @@ ("https://api.github.com/repos/upstream/widget/compare/main...dev4:main"
       :> [files |-> <<PyLarge, GoOneFunction>>, commits |-> <<FixLogin>>])
    @@ ("https://api.github.com/repos/upstream/widget/compare/main...dev5:main"
       :> [files |-> <<Readme>>, commits |-> <<FixLogin>>])
    @@ ("https://api.github.com/repos/upstream/widget/compare/main...dev6:main"
       :> [files |-> <<JsonConfig, NoneAdditions>>, commits |-> <<FixLogin>>])
    @@ ("https://api.github.com/repos/upstream/widget/compare/main...lab:main"
       :> [files   |-> <<ApiGuide, YamlDeployment>>,
           commits |-> <<AddDocker, IntegratePay, FixLogin>>])
    \* READMEs
    @@ ("https://api.github.com/repos/upstream/widget/readme"
       :> [content |-> "IyBXaWRnZXQKQSBzbWFsbCB3aWRnZXQgbGlicmFyeS4KSW5zdGFsbCB3aXRoIHBpcCBpbnN0YWxsIHdpZGdldC4KCiMjIExpY2Vuc2UKTUlU"])
    @@ ("https://api.github.com/repos/acme/widget/readme"
       :> [content |-> "IyBXaWRnZXQKQSBzbWFsbCB3aWRnZXQgbGlicmFyeS4KCiMjIEFib3V0IHRoaXMgZm9yawpUaGlzIGZvcmsgaXMgZGVzaWduZWQgZm9yIGhvc3BpdGFsIHNjaGVkdWxpbmcgdGVhbXMuIEl0IGludGVncmF0ZXMgd2l0aCBFcGljIHN5c3RlbXMgYW5kIHN1cHBvcnRzIEZISVIgYXBpIGFjY2VzcyEKUHVycG9zZTogcnVuIHdpZGdldHMgaW5zaWRlIGNsaW5pY2FsIG5ldHdvcmtzCg=="])
    @@ ("https://api.github.com/repos/dev4/widget/readme"
       :> [content |-> "IyBXaWRnZXQKQSBzbWFsbCB3aWRnZXQgbGlicmFyeS4KSW5zdGFsbCB3aXRoIHBpcCBpbnN0YWxsIHdpZGdldC4KCiMjIExpY2Vuc2UKTUlU"])
    @@ ("https://api.github.com/repos/dev5/widget/readme" :> [content |-> "/w=="])
    @@ ("https://api.github.com/repos/lab/widget/readme"
       :> [content |-> "IyBXaWRnZXQgZm9yIGJhbmtzClVzZSBjYXNlczogYmF0Y2ggc2V0dGxlbWVudCBvZiBjYXJkIHBheW1lbnRzIG92ZXJuaWdodCAjIGZhc3QKSWRlYWwgZm9yICAgdGVhbXMgdGhhdCBuZWVkIGF1ZGl0IHRyYWlscy4gVXNlZnVsIHdoZW4gdGhlIGxlZGdlciBpcyBvZmZsaW5lPwpFeGFtcGxlczogbmlnaHRseSByZWNvbmNpbGlhdGlvbiBqb2JzCiMjIyBEZXBsb3kKUnVucyBvbiBBV1MgYW5kIGt1YmVybmV0ZXMgZm9yIGVudGVycHJpc2VzLCBwcm9kdWN0aW9uIHVzZSBvbmx5Lgo="])
    \* files
    @@ ("https://api.github.com/repos/acme/widget/contents/docs/deployment.md"
       :> [content |-> "IyBEZXBsb3ltZW50ClJlcXVpcmVzOiBrdWJlcm5ldGVzIDEuMjQgb3IgbGF0ZXIgYW5kIGRvY2tlcgpZb3UgbmVlZCBhIHJlZ2lzdHJ5IGFjY291bnQgZm9yIHRoZSBpbWFnZXMuCkdvYWw6IHJ1biB0aGUgd2lkZ2V0IHNlcnZpY2Ugb24gQVdTIGZvciBob3NwaXRhbCB0ZWFtcwo="])
    @@ ("https://api.github.com/repos/acme/widget/contents/docs/settings.ini"
       :> [content |-> "W21haW5dCm1vZGUgPSBmYXN0Cg=="])
    @@ ("https://api.github.com/repos/lab/widget/contents/docs/api.md"
       :> [content |-> "IyBBUEkKVGhpcyBndWlkZSBjb3ZlcnMgaW50ZWdyYXRpb24gd2l0aCBTYWxlc2ZvcmNlIENSTSBhbmQgaW50ZWdyYXRpbmcgU2xhY2sgYWxlcnRzLgpXZSBhaW0gdG8ga2VlcCBldmVyeSBlbmRwb2ludCBzdGFibGUgYWNyb3NzIHJlbGVhc2VzLgpCdWlsdCBmb3IgcGFydG5lciB0ZWFtcy4K"])
    \* the forks of upstream/gadget and upstream/gizmo
    @@ GadgetGitHub

\* lines 44-72: the parsed body of the response with status 200 that ends the retries,
\* None for any other status
make_request(url) == IF url \in DOMAIN GitHub THEN GitHub[url] ELSE Unset

\* the truth value of an Optional[Dict]: neither None nor {}
Present(d) == d # Unset /\ d # EmptyDict

\* d.get(key, default)
Get(d, key, default) == IF key \in DOMAIN d THEN d[key] ELSE default

\* lines 239-251 and 253-265: get_readme and get_file_content decode the body of the
\* response in the same way
DecodedContent(data) ==
    IF Present(data) /\ "content" \in DOMAIN data THEN Base64Text[data.content] ELSE None

\* lines 239-251
get_readme(owner, repo_name) ==
    DecodedContent(make_request(base_url \o "/repos/" \o owner \o "/" \o repo_name \o "/readme"))

\* lines 253-265
get_file_content(owner, repo_name, file_path) ==
    DecodedContent(make_request(base_url \o "/repos/" \o owner \o "/" \o repo_name
                                \o "/contents/" \o file_path))

\* lines 267-302
get_comparison(base_owner, base_repo, head_owner, head_repo) ==
    LET base_data == make_request(base_url \o "/repos/" \o base_owner \o "/" \o base_repo)
        head_data == make_request(base_url \o "/repos/" \o head_owner \o "/" \o head_repo)
    IN  IF ~Present(base_data) \/ ~Present(head_data) THEN Unset
        ELSE make_request(base_url \o "/repos/" \o base_owner \o "/" \o base_repo
                          \o "/compare/" \o Get(base_data, "default_branch", "main")
                          \o "..." \o head_owner \o ":"
                          \o Get(head_data, "default_branch", "main"))

(***************************************************************************)
(* get_owner_details                                                       *)
(***************************************************************************)
\* data.get(key, '').strip() if data.get(key) else None (lines 107-112, 127, 174)
StrippedField(data, key) ==
    IF key \in DOMAIN data /\ Truthy(data[key]) THEN Strip(data[key]) ELSE None

\* s.lstrip(c)
LStrip(s, c) ==
    LET kept == {i \in 1..Len(s) : CharAt(s, i) # c}
    IN  IF kept = {} THEN "" ELSE From(s, Least(kept))

\* lines 180-189
normalize_url(url) ==
    IF ~Truthy(url) THEN None
    ELSE IF StartsWith(Strip(url), "http://") \/ StartsWith(Strip(url), "https://")
    THEN Strip(url)
    ELSE "https://" \o Strip(url)

\* lines 154-178; Unset is the None of line 165
verify_github_organization(org_name) ==
    LET data == make_request(base_url \o "/orgs/" \o org_name)
    IN  IF ~Present(data) THEN Unset
        ELSE [name     |-> IF Truthy(Get(data, "name", None)) THEN data.name
                           ELSE Get(data, "login", None),
              url      |-> Get(data, "html_url", None),
              homepage |-> IF Truthy(StrippedField(data, "blog"))
                           THEN normalize_url(StrippedField(data, "blog")) ELSE None]

\* lines 126-150, the branch of a user.  Line 150 asks _infer_organization when the
\* organization is still unknown; it finds no hint in a profile that has neither bio
\* nor e-mail nor blog, and the profiles of the table that get there have none.
UserOrganization(details, company_raw, company_clean) ==
    IF ~Truthy(company_raw) THEN details
    ELSE IF StartsWith(company_raw, "@")
    THEN LET org_verified == verify_github_organization(company_clean)
         IN  IF org_verified # Unset
             THEN [details EXCEPT !.company = company_clean,
                                  !.organization = org_verified.name,
                                  !.organization_verified = TRUE,
                                  !.organization_url = org_verified.url,
                                  !.organization_homepage = org_verified.homepage]
             ELSE [details EXCEPT !.company = company_clean]
    ELSE [details EXCEPT !.company = company_clean,
                         !.organization = company_clean,
                         !.organization_homepage =
                             IF Truthy(details.blog) THEN normalize_url(details.blog) ELSE @]

\* lines 74-152
get_owner_details(owner) ==
    LET data    == make_request(base_url \o "/users/" \o owner)
        details == [owner_login |-> owner, owner_type |-> "Unknown", real_name |-> None,
                    company |-> None, organization |-> None,
                    organization_verified |-> FALSE, organization_url |-> None,
                    organization_homepage |-> None, bio |-> None, location |-> None,
                    blog |-> None, twitter |-> None, email |-> None,
                    public_repos |-> 0, followers |-> 0]
    IN  IF ~Present(data) THEN details
        ELSE LET basic == [details EXCEPT
                             !.owner_type   = Get(data, "type", "Unknown"),
                             !.real_name    = StrippedField(data, "name"),
                             !.bio          = StrippedField(data, "bio"),
                             !.location     = StrippedField(data, "location"),
                             !.blog         = StrippedField(data, "blog"),
                             !.twitter      = StrippedField(data, "twitter_username"),
                             !.email        = StrippedField(data, "email"),
                             !.public_repos = Get(data, "public_repos", 0),
                             !.followers    = Get(data, "followers", 0)]
             IN  IF basic.owner_type = "Organization"
                 THEN [basic EXCEPT
                         !.organization = IF Truthy(basic.real_name) THEN basic.real_name
                                          ELSE owner,
                         !.organization_verified = TRUE,
                         !.organization_url = "https://github.com/" \o owner,
                         !.organization_homepage =
                             IF Truthy(basic.blog) THEN normalize_url(basic.blog) ELSE @]
                 ELSE UserOrganization(basic, StrippedField(data, "company"),
                                       Strip(LStrip(StrippedField(data, "company"), "@")))

(***************************************************************************)
(* analyze_documentation_files                                             *)
(***************************************************************************)
\* lines 550-557
EmptyDocAnalysis ==
    [documentation_insights |-> <<>>,
     deployment_details     |-> None,
     architecture_notes     |-> None,
     integration_details    |-> None,
     setup_requirements     |-> <<>>,
     stated_goals           |-> <<>>]

\* lines 560-566
doc_file_patterns ==
    [deployment   |-> <<"deploy", "deployment", "installation", "setup", "getting-started",
                        "quickstart">>,
     architecture |-> <<"architecture", "design", "structure">>,
     integration  |-> <<"integration", "api", "connect">>,
     usage        |-> <<"usage", "guide", "tutorial", "examples">>,
     contributing |-> <<"contributing", "development">>]

\* s.endswith(suffix)
EndsWith(s, suffix) ==
    Len(s) >= Len(suffix) /\ From(s, Len(s) - Len(suffix) + 1) = suffix

\* line 572
IsRelevantDoc(file_path) ==
    \/ EndsWith(file_path, ".md")
    \/ Contains(Lower(file_path), "/docs/")
    \/ StartsWith(Lower(file_path), "docs/")

\* lines 608-611
req_patterns ==
    << Cat(<<AnyOf(<<"require", "need", "prerequisite">>), Opt(In({"s"})), Lit(":"), Spaces0,
             Grp(Rpt(NotIn({"\n"}), 10, 100))>>),
       Cat(<<AnyOf(<<"you need", "you must have", "you should have">>), Spaces1,
             Grp(Rpt(NotIn({"\n"}), 10, 100))>>) >>

\* lines 639-643
goal_patterns ==
    << Cat(<<AnyOf(<<"goal", "purpose", "objective">>), Lit(":"), Spaces0,
             Grp(Rpt(NotIn({"\n"}), 15, 150))>>),
       Cat(<<AnyOf(<<"this", "we">>), Spaces1, AnyOf(<<"aim", "intend">>), Opt(In({"s"})),
             Spaces1, Lit("to"), Spaces1, Grp(Rpt(NotIn({"\n"}), 15, 150))>>),
       Cat(<<AnyOf(<<"designed", "built">>), Spaces1, AnyOf(<<"for", "to">>), Spaces1,
             Grp(Rpt(NotIn({"\n"}), 15, 150))>>) >>

\* lines 592-605: the key points of a deployment document
DeploymentPoints(content_lower) ==
    (IF Contains(content_lower, "kubernetes") \/ Contains(content_lower, "k8s")
     THEN <<"Kubernetes deployment">> ELSE <<>>)
    \o (IF Contains(content_lower, "docker") THEN <<"Docker containerization">> ELSE <<>>)
    \o (IF Contains(content_lower, "aws") THEN <<"AWS infrastructure">> ELSE <<>>)
    \o (IF Contains(content_lower, "azure") THEN <<"Azure cloud">> ELSE <<>>)
    \o (IF Contains(content_lower, "on-premise") \/ Contains(content_lower, "on-prem")
        THEN <<"On-premise deployment">> ELSE <<>>)

\* lines 589-636: the insight of one document, by the stem of its file name
DocInsight(doc_file, content, content_lower, file_name) ==
    IF ContainsAny(file_name, doc_file_patterns.deployment)
    THEN [file |-> doc_file, type |-> "deployment",
          key_points |-> DeploymentPoints(content_lower)]
    ELSE IF ContainsAny(file_name, doc_file_patterns.architecture)
    THEN [file |-> doc_file, type |-> "architecture",
          key_points |-> SelectSeq(<<"microservices", "monolith", "distributed", "scalable",
                                     "high availability", "fault tolerant", "event-driven">>,
                                   LAMBDA keyword : Contains(content_lower, keyword))]
    ELSE IF ContainsAny(file_name, doc_file_patterns.integration)
    THEN [file |-> doc_file, type |-> "integration",
          \* integrat(?:e|ing|ion)\s+(?:with\s+)?([A-Z][\w\s]{3,30})
          key_points |-> Stripped(Take(FindGroup(
              Cat(<<Lit("integrat"), AnyOf(<<"e", "ing", "ion">>), Spaces1,
                    Opt(Cat(<<Lit("with"), Spaces1>>)),
                    Grp(Cat(<<In(UpperLetters),
                              Rpt(In(WordChars \cup Whitespace), 3, 30)>>))>>),
              content), 3))]
    ELSE [file |-> doc_file, type |-> None, key_points |-> <<>>]

\* lines 585-650: what one document of at least 100 characters adds to the analysis
DocumentationOfContent(analysis, insight, content_lower) ==
    [analysis EXCEPT
       !.setup_requirements = IF insight.type = "deployment"
                              THEN @ \o FirstOfEach(req_patterns, content_lower, 3) ELSE @,
       !.stated_goals = @ \o FirstOfEach(goal_patterns, content_lower, 2),
       !.documentation_insights = IF insight.key_points # <<>> THEN Append(@, insight) ELSE @]

\* lines 579-650: one iteration of the loop over the documents
DocumentationOfFile(analysis, doc_file, content) ==
    IF ~Truthy(content) \/ Len(content) < 100 THEN analysis
    ELSE DocumentationOfContent(
             analysis,
             DocInsight(doc_file, content, Lower(content), Lower(PathStem(doc_file))),
             Lower(content))

RECURSIVE DocumentationLoop(_, _, _, _)
DocumentationLoop(analysis, fork_owner, fork_name, docs) ==
    IF docs = <<>> THEN analysis
    ELSE DocumentationLoop(
             DocumentationOfFile(analysis, Head(docs),
                                 get_file_content(fork_owner, fork_name, Head(docs))),
             fork_owner, fork_name, Tail(docs))

\* lines 550-652
DocumentationAnalysis(fork_owner, fork_name, new_doc_files) ==
    DocumentationLoop(EmptyDocAnalysis, fork_owner, fork_name,
                      Take(SelectSeq(new_doc_files, IsRelevantDoc), 5))

(***************************************************************************)
(* generate_executive_summary                                              *)
(***************************************************************************)
\* line 1134: sorted(categories), over the categories of analyze_file_changes
SortedCategories(categories) ==
    SelectSeq(<<"api", "configuration", "database", "dependencies", "documentation",
                "frontend", "infrastructure", "security", "testing">>,
              LAMBDA c : c \in categories)

\* [Path(f).name for f in files]
PathNames(files) == Listed([i \in 1..Len(files) |-> PathName(files[i])])

\* lines 1102-1137
extract_specific_changes(fa, ca) ==
    LET notable_new == SelectSeq(Take(fa.new_files_added, 3), LAMBDA f : ~StartsWith(f, "."))
        details ==
            (IF notable_new # <<>>
             THEN <<"new files including " \o Join(", ", PathNames(Take(notable_new, 2)))>>
             ELSE <<>>)
            \o (IF ca.key_features_mentioned # <<>>
                THEN <<"work on " \o Join(", ", Take(ca.key_features_mentioned, 2))>>
                ELSE <<>>)
            \o (IF fa.major_changes # <<>>
                THEN <<"significant modifications to " \o PathName(fa.major_changes[1].file)>>
                ELSE <<>>)
    IN  IF details # <<>>
        THEN "The fork includes " \o Join(" and ", Take(details, 3)) \o "."
        ELSE IF fa.change_categories # {}
        THEN "Modifications span " \o Join(", ", Take(SortedCategories(fa.change_categories), 3))
             \o " components."
        ELSE ""

\* lines 1163-1201.  str(list).lower() contains 'docker' when the lowered name of one of
\* the files does.
infer_business_context(row, fa, ca) ==
    LET categories   == fa.change_categories
        desc_changed == Lower(Get(row, "description_changed", "")) = "true"
        fork_desc    == Strip(Get(row, "fork_description", ""))
    IN  IF desc_changed /\ fork_desc # "" /\ Len(fork_desc) > 10
        THEN "The project has been repositioned as: \"" \o fork_desc \o "\"."
        ELSE IF "infrastructure" \in categories \/ "dependencies" \in categories
        THEN IF \E i \in 1..Len(fa.specific_files_modified) :
                   Contains(Lower(fa.specific_files_modified[i]), "docker")
             THEN "This appears to be an effort to containerize and deploy the software in their environment."
             ELSE "The work focuses on adapting deployment and infrastructure for their operational needs."
        ELSE IF "testing" \in categories /\ Len(fa.new_files_added) > 2
        THEN "Development includes building out testing infrastructure for quality assurance."
        ELSE IF "security" \in categories
        THEN "Changes emphasize security enhancements, likely for enterprise or compliance requirements."
        ELSE IF "api" \in categories /\ "database" \in categories
        THEN "Development extends backend functionality with API and data model enhancements."
        ELSE IF "frontend" \in categories
        THEN "Work concentrates on user interface improvements and frontend customization."
        ELSE IF \E i \in 1..Len(ca.development_focus) : ca.development_focus[i] = "integration"
        THEN "The modifications enable integration with their existing technology stack."
        ELSE ""

\* lines 1019-1024
OpeningSentence(row, fa) ==
    IF Get(row, "fork_owner_type", "User") = "Organization"
    THEN "Organization '" \o row.fork_owner \o "' has developed a customized version of "
         \o row.original_repo \o " with " \o ToString(fa.total_files_changed)
         \o " files modified."
    ELSE "Developer '" \o row.fork_owner \o "' has created a fork of " \o row.original_repo
         \o " with " \o ToString(fa.total_files_changed) \o " file modifications."

\* lines 1026-1037: the sentences the verdict adds; Unset is the default None
VerdictSentences(verdict) ==
    IF ~Present(verdict) \/ verdict.reasons = <<>> THEN <<>>
    ELSE IF verdict.is_meaningful
    THEN <<"MEANINGFUL CHANGES: " \o Join("; ", Take(verdict.reasons, 2)) \o ".">>
    ELSE <<"NOT MEANINGFUL: " \o verdict.reasons[1] \o ".">>

\* variant of PurposeSentences: every alternative that is there adds its sentence
PurposeSentences_Each(ra, da) ==
    (IF Truthy(ra.stated_purpose)
     THEN <<"The fork explicitly states it is " \o ra.stated_purpose \o ".">> ELSE <<>>)
    \o (IF da.stated_goals # <<>>
        THEN <<"Documentation indicates the goal is to " \o da.stated_goals[1] \o ".">>
        ELSE <<>>)
    \o (IF Truthy(ra.business_context) THEN <<ra.business_context>> ELSE <<>>)
    \o (IF ra.use_cases # <<>> THEN <<"The fork is " \o ra.use_cases[1] \o ".">> ELSE <<>>)

\* lines 1039-1056: the sentences the stated purpose adds, at most one
PurposeSentences(ra, da) ==
    IF Truthy(ra.stated_purpose)
    THEN <<"The fork explicitly states it is " \o ra.stated_purpose \o ".">>
    ELSE IF da.stated_goals # <<>>
    THEN <<"Documentation indicates the goal is to " \o da.stated_goals[1] \o ".">>
    ELSE IF Truthy(ra.business_context)
    THEN <<ra.business_context>>
    ELSE IF ra.use_cases # <<>>
    THEN <<"The fork is " \o ra.use_cases[1] \o ".">>
    ELSE <<>>

\* lines 1058-1086: industry, deployment documentation, integrations, problems
ContextSentences(ra, deployment_docs) ==
    (IF ra.industry_terms = <<>> THEN <<>>
     ELSE IF Truthy(ra.target_audience)
     THEN <<"This appears to be targeted at " \o ra.target_audience \o " in the "
            \o Join(" and ", Take(ra.industry_terms, 2)) \o " space.">>
     ELSE <<"The fork is focused on " \o Join(" and ", Take(ra.industry_terms, 2))
            \o " applications.">>)
    \o (IF deployment_docs # <<>> /\ deployment_docs[1].key_points # <<>>
        THEN <<"Deployment documentation covers "
               \o Join(", ", Take(deployment_docs[1].key_points, 3)) \o ".">>
        ELSE <<>>)
    \o (IF ra.integrations_mentioned # <<>>
        THEN <<"Integrations mentioned include "
               \o Join(", ", Take(ra.integrations_mentioned, 3)) \o ".">>
        ELSE <<>>)
    \o (IF ra.problems_solved # <<>> /\ ~Truthy(ra.stated_purpose)
        THEN <<"The changes address " \o ra.problems_solved[1] \o ".">>
        ELSE <<>>)

\* lines 1088-1096: the technical sentences, added when only the opening is there
FallbackSentences(summary_parts, row, fa, ca) ==
    IF Len(summary_parts) = 1
    THEN (IF extract_specific_changes(fa, ca) # ""
          THEN <<extract_specific_changes(fa, ca)>> ELSE <<>>)
         \o (IF infer_business_context(row, fa, ca) # ""
             THEN <<infer_business_context(row, fa, ca)>> ELSE <<>>)
    ELSE <<>>

\* lines 1017-1096: summary_parts as it is at line 1099
SummaryParts(row, fa, ca, ra, da, verdict) ==
    LET documented ==
            <<OpeningSentence(row, fa)>>
            \o VerdictSentences(verdict)
            \o PurposeSentences(ra, da)
            \o ContextSentences(ra, SelectSeq(da.documentation_insights,
                                              LAMBDA d : d.type = "deployment"))
    IN  documented \o FallbackSentences(documented, row, fa, ca)

\* variant of Composed: the text is returned only when it is over 150 characters long
Composed_Over150(summary_parts) ==
    LET text == Join(" ", Take(summary_parts, 5))
    IN  IF Len(text) > 150 THEN text
        ELSE "Fork analysis incomplete - insufficient documentation to determine business purpose."

\* variant of Composed: every collected sentence is joined, not the first five
Composed_Untruncated(summary_parts) ==
    LET text == Join(" ", summary_parts)
    IN  IF Len(text) > 50 THEN text
        ELSE "Fork analysis incomplete - insufficient documentation to determine business purpose."

\* lines 1098-1100
Composed(summary_parts) ==
    LET text == Join(" ", Take(summary_parts, 5))
    IN  IF Len(text) > 50 THEN text
        ELSE "Fork analysis incomplete - insufficient documentation to determine business purpose."

\* lines 1005-1100; readme_changed is not used
generate_executive_summary(row, fa, ca, readme_changed, ra, da, verdict) ==
    Composed(SummaryParts(row, fa, ca, ra, da, verdict))

(***************************************************************************)
(* Signal sets and file analyses enumerated directly, as inputs of         *)
(* classify_fork_meaningfulness                                            *)
(***************************************************************************)
\* values of code_additions_count around the thresholds of lines 941 and 944
CodeAdditionValues == {0, 11, 22, 50, 51, 100, 101}

\* change categories used when file analyses are enumerated directly
ScoreCategories == {"documentation", "configuration", "infrastructure"}

\* a signal set with the given numbers of entries
SignalSet(nf, nc, ne, nv, cfg, ca) ==
    [new_functions_detected      |-> Rep(nf, [file |-> "src/app.py", function |-> "foo", language |-> "python"]),
     new_classes_detected        |-> Rep(nc, [file |-> "src/app.py", class |-> "Foo", language |-> "python"]),
     enhanced_functions          |-> Rep(ne, [file |-> "src/app.py", additions |-> 11]),
     environment_adjustments     |-> Rep(nv, [file |-> "docker/run.py", type |-> "docker/kubernetes", additions |-> 6]),
     config_only_changes         |-> Rep(cfg, "data.json"),
     code_additions_count        |-> ca,
     config_additions_count      |-> cfg,
     has_meaningful_code_changes |-> (nf > 0 \/ nc > 0 \/ ne > 0 \/ nv > 0 \/ ca > 50),
     meaningfulness_signals      |-> Rep(nf, "New function: foo in src/app.py")
                                     \o Rep(nc, "New class: Foo in src/app.py")
                                     \o Rep(nv, "Environment adjustment in docker/run.py")
                                     \o Rep(ne, "Enhanced logic in src/app.py")]

\* a file analysis of t changed files with the given change categories
FileAnalysisOf(t, cats) ==
    [EmptyFileAnalysis EXCEPT !.total_files_changed = t,
                              !.change_categories = cats,
                              !.specific_files_modified = Rep(t, "changed.file")]

\* What analyze_patch_content and analyze_file_changes can produce for one comparison:
\* a config-only file yields no other signal, every enhanced-function entry and
\* every environment adjustment is a file of its own kind, an enhanced file has
\* more than 10 additions, and no file means no category.
Producible(nf, nc, ne, nv, cfg, ca, t, cats) ==
    /\ cfg + Max(Max(ne, nv), IF nf > 0 \/ nc > 0 \/ ca > 0 THEN 1 ELSE 0) <= t
    /\ ca >= 11 * ne
    /\ (t = 0 => cats = {})

(***************************************************************************)
(* State before process_csv / analyze_fork has produced anything           *)
(***************************************************************************)
NothingAnalysed ==
    /\ forks = <<>>
    /\ max_forks = Unset
    /\ idx = 0
    /\ all_insights = <<>>
    /\ fork_data = Unset
    /\ comparison = Unset
    /\ commit_analysis = Unset
    /\ readme_analysis = Unset
    /\ doc_analysis = Unset
    /\ summary = None
    /\ insights = EmptyDict

(***************************************************************************)
(* analyze_fork, lines 1344-1363: the steps that analyse the comparison    *)
(***************************************************************************)
\* lines 1346-1347
AnalyzeFileChanges ==
    /\ pc = "files"
    /\ IF Raised(analyze_file_changes(comparison))
       THEN /\ pc' = "raised"
            /\ UNCHANGED <<request, file_analysis, insights>>
       ELSE /\ file_analysis' = analyze_file_changes(comparison)
            /\ insights' = Put(insights, "file_analysis", file_analysis')
            /\ pc' = "patch"
    /\ UNCHANGED <<request, forks, max_forks, idx, all_insights, fork_data, comparison,
                   patch_analysis, meaningfulness, commit_analysis, readme_analysis,
                   doc_analysis, summary, other_patch_analysis, other_meaningfulness>>

\* variant of AnalyzePatchContent: the analysis dict is shared between the calls, each
\* call goes on from the lists and counters the call before left
AnalyzePatchContent_Shared ==
    /\ pc = "patch"
    /\ IF Raised(analyze_patch_content(comparison))
       THEN /\ pc' = "raised"
            /\ UNCHANGED <<request, patch_analysis, insights>>
       ELSE /\ patch_analysis' =
                 IF all_insights # <<>>
                    /\ "patch_analysis" \in DOMAIN all_insights[Len(all_insights)]
                 THEN Extended(all_insights[Len(all_insights)].patch_analysis,
                               analyze_patch_content(comparison))
                 ELSE analyze_patch_content(comparison)
            /\ insights' = Put(insights, "patch_analysis", patch_analysis')
            /\ pc' = "classify"
    /\ UNCHANGED <<request, forks, max_forks, idx, all_insights, fork_data, comparison,
                   file_analysis, meaningfulness, commit_analysis, readme_analysis,
                   doc_analysis, summary, other_patch_analysis, other_meaningfulness>>

\* lines 1351-1352
AnalyzePatchContent ==
    /\ pc = "patch"
    /\ IF Raised(analyze_patch_content(comparison))
       THEN /\ pc' = "raised"
            /\ UNCHANGED <<request, patch_analysis, insights>>
       ELSE /\ patch_analysis' = analyze_patch_content(comparison)
            /\ insights' = Put(insights, "patch_analysis", patch_analysis')
            /\ pc' = "classify"
    /\ UNCHANGED <<request, forks, max_forks, idx, all_insights, fork_data, comparison,
                   file_analysis, meaningfulness, commit_analysis, readme_analysis,
                   doc_analysis, summary, other_patch_analysis, other_meaningfulness>>

\* lines 1362-1363
AnalyzeCommitContent ==
    /\ pc = "commits"
    /\ commit_analysis' = analyze_commit_content(comparison)
    /\ insights' = Put(insights, "commit_analysis", commit_analysis')
    /\ pc' = "readme"
    /\ UNCHANGED <<request, forks, max_forks, idx, all_insights, fork_data, comparison,
                   file_analysis, patch_analysis, meaningfulness, readme_analysis,
                   doc_analysis, summary, other_patch_analysis, other_meaningfulness>>

\* lines 997-1003: the dict classify_fork_meaningfulness returns, without the locals
\* the model records beside it
ReturnedVerdict(verdict) ==
    [key \in {"is_meaningful", "classification", "confidence", "reasons", "summary"} |->
        verdict[key]]

\* lines 1356-1357
Classify ==
    /\ pc = "classify"
    /\ meaningfulness' = classify_fork_meaningfulness(patch_analysis, file_analysis)
    /\ insights' = Put(insights, "meaningfulness", ReturnedVerdict(meaningfulness'))
    /\ pc' = "commits"
    /\ UNCHANGED <<request, forks, max_forks, idx, all_insights, fork_data, comparison,
                   file_analysis, patch_analysis, commit_analysis, readme_analysis,
                   doc_analysis, summary, other_patch_analysis, other_meaningfulness>>

(***************************************************************************)
(* SpecScore: classify_fork_meaningfulness applied to every producible     *)
(* signal set and file analysis within the bounds                          *)
(***************************************************************************)
InitScore ==
    /\ pc = "classify"
    /\ NothingAnalysed
    /\ \E nf \in 0..MaxCount, nc \in 0..MaxCount, ne \in 0..MaxCount, nv \in 0..MaxCount,
          cfg \in 0..MaxFiles, t \in 0..MaxFiles, ca \in CodeAdditionValues,
          cats \in SUBSET ScoreCategories :
            /\ Producible(nf, nc, ne, nv, cfg, ca, t, cats)
            /\ patch_analysis = SignalSet(nf, nc, ne, nv, cfg, ca)
            /\ file_analysis = FileAnalysisOf(t, cats)
    /\ meaningfulness = Unset
    /\ other_patch_analysis = Unset
    /\ other_meaningfulness = Unset
    /\ request = Unset

NextScore == Classify

SpecScore == InitScore /\ [][NextScore]_vars

\* the verdict of the classification step is available
Classified == meaningfulness # Unset

(***************************************************************************)
(* SpecExtract: the extractors and the scorer applied, in the order of     *)
(* analyze_fork, to a comparison that is None, an empty dict, or a dict    *)
(* with a list of changed files and a list of commits (or only one of the  *)
(* two)                                                                    *)
(***************************************************************************)
\* the largest number of changed files of a comparison
MaxComparisonFiles == 3

\* the lists of at most n different sample files
FileLists(n) ==
    UNION { { fs \in [1..k -> FileSamples] : \A i, j \in 1..k : fs[i] = fs[j] => i = j } :
            k \in 0..n }

ExtractComparisons ==
    {Unset, EmptyDict}
    \cup { [files |-> fs, commits |-> cs] :
             fs \in FileLists(MaxComparisonFiles), cs \in CommitListSamples }
    \cup { [files |-> fs] : fs \in FileLists(1) }
    \cup { [commits |-> cs] : cs \in CommitListSamples }

InitExtract ==
    /\ pc = "files"
    /\ comparison \in ExtractComparisons
    /\ forks = <<>>
    /\ max_forks = Unset
    /\ idx = 0
    /\ all_insights = <<>>
    /\ fork_data = Unset
    /\ file_analysis = Unset
    /\ patch_analysis = Unset
    /\ meaningfulness = Unset
    /\ commit_analysis = Unset
    /\ readme_analysis = Unset
    /\ doc_analysis = Unset
    /\ summary = None
    /\ insights = EmptyDict
    /\ other_patch_analysis = Unset
    /\ other_meaningfulness = Unset
    /\ request = Unset

NextExtract ==
    \/ AnalyzeFileChanges
    \/ AnalyzePatchContent
    \/ Classify
    \/ AnalyzeCommitContent

SpecExtract == InitExtract /\ [][NextExtract]_vars

(***************************************************************************)
(* SpecCounts: analyze_file_changes and analyze_patch_content called on a  *)
(* comparison whose files may carry a count that is not a number           *)
(***************************************************************************)
\* the largest number of changed files of such a comparison
MaxMalformedFiles == 2

CountSamples == MalformedSamples \cup {PyOneFunction, JsonConfig}

CountComparisons ==
    { [files |-> fs, commits |-> <<>>] :
        fs \in UNION { { l \in [1..k -> CountSamples] : \A i, j \in 1..k : l[i] = l[j] => i = j } :
                       k \in 0..MaxMalformedFiles } }

\* either extractor is about to be called on the comparison
InitCounts ==
    /\ pc \in {"files", "patch"}
    /\ comparison \in CountComparisons
    /\ forks = <<>>
    /\ max_forks = Unset
    /\ idx = 0
    /\ all_insights = <<>>
    /\ fork_data = Unset
    /\ file_analysis = Unset
    /\ patch_analysis = Unset
    /\ meaningfulness = Unset
    /\ commit_analysis = Unset
    /\ readme_analysis = Unset
    /\ doc_analysis = Unset
    /\ summary = None
    /\ insights = EmptyDict
    /\ other_patch_analysis = Unset
    /\ other_meaningfulness = Unset
    /\ request = Unset

NextCounts ==
    \/ AnalyzeFileChanges
    \/ AnalyzePatchContent

SpecCounts == InitCounts /\ [][NextCounts]_vars

(***************************************************************************)
(* Spec: process_csv over the rows of a CSV file, analyze_fork on each row *)
(***************************************************************************)
\* the largest number of rows of the CSV file
MaxForks == 2

\* A row as csv.DictReader gives it: every column of the header is a key, the value
\* is a string, or None for a column the line is too short for.  The columns are in
\* alphabetical order as analyze_forks.py writes them, so that a short line lacks
\* readme_changed first, then original_url and original_repo.
Row(fork_owner, original_repo, fork_owner_type, readme_changed) ==
    [commits_ahead       |-> "3",
     description_changed |-> "False",
     fork_description    |-> "",
     fork_name           |-> "widget",
     fork_owner          |-> fork_owner,
     fork_owner_type     |-> fork_owner_type,
     fork_owner_url      |-> "https://github.com/" \o fork_owner,
     fork_url            |-> "https://github.com/" \o fork_owner \o "/widget",
     original_repo       |-> original_repo,
     original_url        |-> IF original_repo = None THEN None
                             ELSE "https://github.com/" \o original_repo,
     readme_changed      |-> readme_changed]

\* the rows of the model: forks of upstream/widget that GitHub knows (the comparison
\* of dev6 has a file whose additions is None), a fork it does not know (dev2), rows
\* whose original_repo is not owner/name, and short lines
ForkRows ==
    { Row("acme", "upstream/widget", "Organization", "True"),
      Row("dev1", "upstream/widget", "User", "False"),
      Row("dev2", "upstream/widget", "User", "False"),
      Row("dev3", "upstream/widget", "User", "False"),
      Row("dev4", "upstream/widget", "User", "False"),
      Row("lab", "upstream/widget", "User", "True"),
      Row("dev5", "upstream/widget", "User", None),
      Row("dev6", "upstream/widget", "User", "False"),
      Row("bad1", "widget", "User", "False"),
      Row("bad2", "upstream/widget/extra", "Organization", "True"),
      Row("bad3", None, "User", None) }

\* analyze_readme_deeply and analyze_documentation_files on what the forks of the rows
\* make them read, computed once
SampleReadmeAnalysis ==
    Tabulated([k \in { <<get_readme("upstream", "widget"), get_readme(row.fork_owner, "widget")>> :
                         row \in ForkRows } |->
                 ReadmeAnalysis(k[1], k[2])])

SampleDocAnalysis ==
    Tabulated([k \in { <<row.fork_owner,
                         analyze_file_changes(get_comparison("upstream", "widget",
                                                             row.fork_owner, "widget")
                                             ).new_files_added>> :
                       row \in { r \in ForkRows :
                                  ~Raised(analyze_file_changes(
                                             get_comparison("upstream", "widget",
                                                            r.fork_owner, "widget"))) } } |->
                 DocumentationAnalysis(k[1], "widget", k[2])])

\* lines 399-543
analyze_readme_deeply(original_readme, fork_readme) ==
    IF <<original_readme, fork_readme>> \in DOMAIN SampleReadmeAnalysis
    THEN SampleReadmeAnalysis[<<original_readme, fork_readme>>]
    ELSE ReadmeAnalysis(original_readme, fork_readme)

\* lines 545-652
analyze_documentation_files(fork_owner, fork_name, new_doc_files) ==
    IF fork_name = "widget" /\ <<fork_owner, new_doc_files>> \in DOMAIN SampleDocAnalysis
    THEN SampleDocAnalysis[<<fork_owner, new_doc_files>>]
    ELSE DocumentationAnalysis(fork_owner, fork_name, new_doc_files)

\* lines 1408-1412
forks_to_process == IF max_forks # Unset THEN Take(forks, max_forks.limit) ELSE forks

\* line 1295: unpacking original_repo.split('/') into two names raises AttributeError
\* for None and ValueError unless there are exactly two parts
SplitRaises(row) ==
    row.original_repo = None \/ Len(Split(row.original_repo, "/")) # 2

\* line 1295
original_owner == Split(fork_data.original_repo, "/")[1]
original_name  == Split(fork_data.original_repo, "/")[2]

\* lines 1304-1316
NewInsights(row) ==
    [fork_owner     |-> row.fork_owner,
     fork_name      |-> row.fork_name,
     fork_url       |-> Get(row, "fork_url", ""),
     fork_owner_url |-> Get(row, "fork_owner_url", ""),
     original_repo  |-> row.original_repo,
     original_url   |-> Get(row, "original_url", ""),
     commits_ahead  |-> Get(row, "commits_ahead", 0),
     comparison_url |-> "",
     owner_details  |-> get_owner_details(row.fork_owner)]

\* lines 1330-1336
ComparisonUrl(base_data, head_data) ==
    IF Present(base_data) /\ Present(head_data)
    THEN "https://github.com/" \o original_owner \o "/" \o original_name \o "/compare/"
         \o Get(base_data, "default_branch", "main") \o "..." \o fork_data.fork_owner \o ":"
         \o Get(head_data, "default_branch", "main")
    ELSE ""

\* the locals of analyze_fork before a call
FreshLocals ==
    /\ comparison' = Unset
    /\ file_analysis' = Unset
    /\ patch_analysis' = Unset
    /\ meaningfulness' = Unset
    /\ commit_analysis' = Unset
    /\ readme_analysis' = Unset
    /\ doc_analysis' = Unset
    /\ summary' = None
    /\ insights' = EmptyDict

\* process_csv before the file is read; self.max_forks as __init__ left it (line 39)
Init ==
    /\ pc = "start"
    /\ forks \in UNION { [1..n -> ForkRows] : n \in 0..MaxForks }
    /\ max_forks \in {Unset} \cup { [limit |-> n] : n \in 0..MaxForks }
    /\ idx = 0
    /\ all_insights = <<>>
    /\ fork_data = Unset
    /\ comparison = Unset
    /\ file_analysis = Unset
    /\ patch_analysis = Unset
    /\ meaningfulness = Unset
    /\ commit_analysis = Unset
    /\ readme_analysis = Unset
    /\ doc_analysis = Unset
    /\ summary = None
    /\ insights = EmptyDict
    /\ other_patch_analysis = Unset
    /\ other_meaningfulness = Unset
    /\ request = Unset

\* process_csv, lines 1395-1413: no rows, return []; else enter the loop
ReadForks ==
    /\ pc = "start"
    /\ all_insights' = <<>>
    /\ pc' = IF Len(forks) = 0 THEN "done" ELSE "loop"
    /\ UNCHANGED <<request, forks, max_forks, idx, fork_data, comparison, file_analysis,
                   patch_analysis, meaningfulness, commit_analysis, readme_analysis,
                   doc_analysis, summary, insights, other_patch_analysis,
                   other_meaningfulness>>

\* process_csv, lines 1415-1418 and 1424: the next row is handed to analyze_fork, or
\* the loop is over and all_insights is returned
NextFork ==
    /\ pc = "loop"
    /\ IF idx < Len(forks_to_process)
       THEN /\ idx' = idx + 1
            /\ fork_data' = forks_to_process[idx + 1]
            /\ pc' = "fork"
            /\ FreshLocals
       ELSE /\ pc' = "done"
            /\ UNCHANGED <<request, idx, fork_data, comparison, file_analysis, patch_analysis,
                           meaningfulness, commit_analysis, readme_analysis, doc_analysis,
                           summary, insights>>
    /\ UNCHANGED <<request, forks, max_forks, all_insights, other_patch_analysis,
                   other_meaningfulness>>

\* variant of AnalyzeForkRaises: the exception ends the loop
AnalyzeForkRaises_Break ==
    /\ pc = "fork"
    /\ SplitRaises(fork_data)
    /\ pc' = "done"
    /\ UNCHANGED <<request, forks, max_forks, idx, all_insights, fork_data, comparison,
                   file_analysis, patch_analysis, meaningfulness, commit_analysis,
                   readme_analysis, doc_analysis, summary, insights,
                   other_patch_analysis, other_meaningfulness>>

\* analyze_fork raises at line 1295; process_csv catches the exception (lines
\* 1420-1422), appends nothing and goes on with the next row
AnalyzeForkRaises ==
    /\ pc = "fork"
    /\ SplitRaises(fork_data)
    /\ pc' = "loop"
    /\ UNCHANGED <<request, forks, max_forks, idx, all_insights, fork_data, comparison,
                   file_analysis, patch_analysis, meaningfulness, commit_analysis,
                   readme_analysis, doc_analysis, summary, insights,
                   other_patch_analysis, other_meaningfulness>>

\* variant of ComparisonFailed: the record gets the error but no summary
ComparisonFailed_NoSummary ==
    /\ pc = "fork"
    /\ ~SplitRaises(fork_data)
    /\ comparison' = get_comparison(original_owner, original_name,
                                    fork_data.fork_owner, fork_data.fork_name)
    /\ ~Present(comparison')
    /\ insights' = Put(NewInsights(fork_data), "error", "comparison_failed")
    /\ all_insights' = Append(all_insights, insights')
    /\ pc' = "loop"
    /\ UNCHANGED <<request, forks, max_forks, idx, fork_data, file_analysis, patch_analysis,
                   meaningfulness, commit_analysis, readme_analysis, doc_analysis,
                   summary, other_patch_analysis, other_meaningfulness>>

\* analyze_fork, lines 1292-1326, and line 1419: there is no comparison; the dict
\* with the summary of line 1324 and the error is returned and appended
ComparisonFailed ==
    /\ pc = "fork"
    /\ ~SplitRaises(fork_data)
    /\ comparison' = get_comparison(original_owner, original_name,
                                    fork_data.fork_owner, fork_data.fork_name)
    /\ ~Present(comparison')
    /\ insights' = Put(Put(NewInsights(fork_data), "summary",
                           "Unable to analyze fork by " \o fork_data.fork_owner
                           \o ". The repository may be private or inaccessible."),
                       "error", "comparison_failed")
    /\ all_insights' = Append(all_insights, insights')
    /\ pc' = "loop"
    /\ UNCHANGED <<request, forks, max_forks, idx, fork_data, file_analysis, patch_analysis,
                   meaningfulness, commit_analysis, readme_analysis, doc_analysis,
                   summary, other_patch_analysis, other_meaningfulness>>

\* analyze_fork, lines 1292-1342: there is a comparison
ComparisonFetched ==
    /\ pc = "fork"
    /\ ~SplitRaises(fork_data)
    /\ comparison' = get_comparison(original_owner, original_name,
                                    fork_data.fork_owner, fork_data.fork_name)
    /\ Present(comparison')
    /\ insights' = Put(NewInsights(fork_data), "comparison_url",
                       ComparisonUrl(
                           make_request(base_url \o "/repos/" \o original_owner \o "/"
                                        \o original_name),
                           make_request(base_url \o "/repos/" \o fork_data.fork_owner \o "/"
                                        \o fork_data.fork_name)))
    /\ pc' = "files"
    /\ UNCHANGED <<request, forks, max_forks, idx, all_insights, fork_data, file_analysis,
                   patch_analysis, meaningfulness, commit_analysis, readme_analysis,
                   doc_analysis, summary, other_patch_analysis, other_meaningfulness>>

\* analyze_fork, lines 1367-1370
AnalyzeReadme ==
    /\ pc = "readme"
    /\ fork_data # Unset
    /\ readme_analysis' = analyze_readme_deeply(
                              get_readme(original_owner, original_name),
                              get_readme(fork_data.fork_owner, fork_data.fork_name))
    /\ insights' = Put(insights, "readme_analysis", readme_analysis')
    /\ pc' = "docs"
    /\ UNCHANGED <<request, forks, max_forks, idx, all_insights, fork_data, comparison,
                   file_analysis, patch_analysis, meaningfulness, commit_analysis,
                   doc_analysis, summary, other_patch_analysis, other_meaningfulness>>

\* analyze_fork, lines 1374-1376
AnalyzeDocumentationFiles ==
    /\ pc = "docs"
    /\ doc_analysis' = analyze_documentation_files(fork_data.fork_owner, fork_data.fork_name,
                                                   file_analysis.new_files_added)
    /\ insights' = Put(insights, "documentation_analysis", doc_analysis')
    /\ pc' = "summary"
    /\ UNCHANGED <<request, forks, max_forks, idx, all_insights, fork_data, comparison,
                   file_analysis, patch_analysis, meaningfulness, commit_analysis,
                   readme_analysis, summary, other_patch_analysis, other_meaningfulness>>

\* process_csv, lines 1420-1422: an exception that left a step of analyze_fork is
\* caught; nothing is appended and the loop goes on with the next row
CatchException ==
    /\ pc = "raised"
    /\ pc' = "loop"
    /\ UNCHANGED <<request, forks, max_forks, idx, all_insights, fork_data, comparison,
                   file_analysis, patch_analysis, meaningfulness, commit_analysis,
                   readme_analysis, doc_analysis, summary, insights,
                   other_patch_analysis, other_meaningfulness>>

\* analyze_fork, line 1379: readme_changed is None and None.lower() raises
\* AttributeError; process_csv catches it (lines 1420-1422) and appends nothing
ReadmeChangedRaises ==
    /\ pc = "summary"
    /\ Get(fork_data, "readme_changed", "") = None
    /\ pc' = "loop"
    /\ UNCHANGED <<request, forks, max_forks, idx, all_insights, fork_data, comparison,
                   file_analysis, patch_analysis, meaningfulness, commit_analysis,
                   readme_analysis, doc_analysis, summary, insights,
                   other_patch_analysis, other_meaningfulness>>

\* analyze_fork, lines 1379-1391, and line 1419: the summary is composed and the dict
\* is returned and appended
GenerateSummary ==
    /\ pc = "summary"
    /\ Get(fork_data, "readme_changed", "") # None
    /\ summary' = generate_executive_summary(
                      fork_data, file_analysis, commit_analysis,
                      Lower(Get(fork_data, "readme_changed", "")) = "true",
                      readme_analysis, doc_analysis, meaningfulness)
    /\ insights' = Put(insights, "summary", summary')
    /\ all_insights' = Append(all_insights, insights')
    /\ pc' = "loop"
    /\ UNCHANGED <<request, forks, max_forks, idx, fork_data, comparison, file_analysis,
                   patch_analysis, meaningfulness, commit_analysis, readme_analysis,
                   doc_analysis, other_patch_analysis, other_meaningfulness>>

Next ==
    \/ ReadForks
    \/ NextFork
    \/ AnalyzeForkRaises
    \/ ComparisonFailed
    \/ ComparisonFetched
    \/ AnalyzeFileChanges
    \/ AnalyzePatchContent
    \/ Classify
    \/ AnalyzeCommitContent
    \/ AnalyzeReadme
    \/ AnalyzeDocumentationFiles
    \/ CatchException
    \/ ReadmeChangedRaises
    \/ GenerateSummary

Spec == Init /\ [][Next]_vars

(***************************************************************************)
(* C1: the verdict follows the score bands: score >= 20 Meaningful/high,   *)
(* 10..19 Meaningful/medium, 5..9 Likely Meaningful/low, below 5 Not       *)
(* Meaningful with confidence medium when score < -5 and low otherwise;    *)
(* is_meaningful is true exactly in the first three bands.                 *)
(***************************************************************************)
C1_ScoreBands ==
    Classified =>
      LET v == meaningfulness IN
        /\ (v.score >= 20 => v.classification = "Meaningful" /\ v.confidence = "high")
        /\ (v.score >= 10 /\ v.score < 20 =>
              v.classification = "Meaningful" /\ v.confidence = "medium")
        /\ (v.score >= 5 /\ v.score < 10 =>
              v.classification = "Likely Meaningful" /\ v.confidence = "low")
        /\ (v.score < 5 /\ v.score < -5 =>
              v.classification = "Not Meaningful" /\ v.confidence = "medium")
        /\ (v.score < 5 /\ v.score >= -5 =>
              v.classification = "Not Meaningful" /\ v.confidence = "low")
        /\ (v.is_meaningful <=> v.score >= 5)

\* a verdict in the lowest band with a score below -5
C1_Witness ==
    /\ Classified
    /\ meaningfulness.score < -5
    /\ meaningfulness.classification = "Not Meaningful"
    /\ meaningfulness.confidence = "medium"

(***************************************************************************)
(* C5: before penalties the score is 10 per new function + 15 per new      *)
(* class + 5 per enhanced function + 8 per environment adjustment + bonus, *)
(* the bonus being 20 above 100 code additions, 10 for 51..100, else 0.    *)
(***************************************************************************)
C5_PositiveScore ==
    Classified =>
      LET pa    == patch_analysis
          bonus == IF pa.code_additions_count > 100 THEN 20
                   ELSE IF pa.code_additions_count > 50 THEN 10
                   ELSE 0
      IN  meaningfulness.positive_score =
             10 * Len(pa.new_functions_detected)
           + 15 * Len(pa.new_classes_detected)
           + 5  * Len(pa.enhanced_functions)
           + 8  * Len(pa.environment_adjustments)
           + bonus

\* every kind of signal present, with more than 100 code additions
C5_Witness ==
    /\ Classified
    /\ Len(patch_analysis.new_functions_detected) > 0
    /\ Len(patch_analysis.new_classes_detected) > 0
    /\ Len(patch_analysis.enhanced_functions) > 0
    /\ Len(patch_analysis.environment_adjustments) > 0
    /\ patch_analysis.code_additions_count > 100
    /\ meaningfulness.positive_score = 10 + 15 + 5 + 8 + 20

(***************************************************************************)
(* C7: a meaningful verdict's summary follows the priority new function or *)
(* class > environment adjustment > enhanced function > substantial code   *)
(* modifications.                                                          *)
(***************************************************************************)
C7_MeaningfulSummary ==
    Classified /\ meaningfulness.is_meaningful =>
      LET pa == patch_analysis IN
        meaningfulness.summary =
          IF Len(pa.new_functions_detected) >= 1 \/ Len(pa.new_classes_detected) >= 1
          THEN "Fork adds new functionality to the codebase"
          ELSE IF Len(pa.environment_adjustments) >= 1
          THEN "Fork adapts the project for different environments"
          ELSE IF Len(pa.enhanced_functions) >= 1
          THEN "Fork enhances existing functionality"
          ELSE "Fork includes substantial code modifications"

\* a meaningful verdict with environment adjustments and enhanced functions but no
\* new function or class
C7_Witness ==
    /\ Classified
    /\ meaningfulness.is_meaningful
    /\ patch_analysis.new_functions_detected = <<>>
    /\ patch_analysis.new_classes_detected = <<>>
    /\ Len(patch_analysis.environment_adjustments) > 0
    /\ Len(patch_analysis.enhanced_functions) > 0
    /\ meaningfulness.summary = "Fork adapts the project for different environments"

(***************************************************************************)
(* C8 (as stated): a not-meaningful verdict's summary is the configuration *)
(* sentence if the configuration-ratio reason is in reasons, otherwise the *)
(* documentation sentence if documentation is the only change category,    *)
(* otherwise the minor-changes sentence.                                   *)
(***************************************************************************)
ConfigReason(pa) == ToString(Len(pa.config_only_changes)) \o " configuration file(s) changed"

InReasons(reason, v) == \E i \in 1..Len(v.reasons) : v.reasons[i] = reason

C8_AsStated ==
    Classified /\ ~meaningfulness.is_meaningful =>
      meaningfulness.summary =
        IF InReasons(ConfigReason(patch_analysis), meaningfulness)
        THEN "Fork primarily contains configuration updates"
        ELSE IF file_analysis.change_categories = {"documentation"}
        THEN "Fork primarily contains documentation changes"
        ELSE "Fork contains minor or non-functional changes"

(***************************************************************************)
(* C8 (amended): a not-meaningful verdict's summary is the configuration   *)
(* sentence if there are changed files and more than 80% of them are       *)
(* config-only (whether or not the configuration reason was recorded),     *)
(* otherwise the documentation sentence if documentation is among at most  *)
(* two change categories, otherwise the minor-changes sentence.            *)
(***************************************************************************)
C8_NotMeaningfulSummary ==
    Classified /\ ~meaningfulness.is_meaningful =>
      LET cfg  == Len(patch_analysis.config_only_changes)
          t    == file_analysis.total_files_changed
          cats == file_analysis.change_categories
      IN  meaningfulness.summary =
            IF t > 0 /\ 10 * cfg > 8 * t
            THEN "Fork primarily contains configuration updates"
            ELSE IF "documentation" \in cats /\ Cardinality(cats) \in {1, 2}
            THEN "Fork primarily contains documentation changes"
            ELSE "Fork contains minor or non-functional changes"

\* a not-meaningful verdict whose reasons hold a positive reason instead of the
\* configuration reason although more than 80% of the files are config-only
C8_Witness ==
    /\ Classified
    /\ ~meaningfulness.is_meaningful
    /\ Len(patch_analysis.enhanced_functions) = 1
    /\ ~InReasons(ConfigReason(patch_analysis), meaningfulness)
    /\ meaningfulness.summary = "Fork primarily contains configuration updates"

(***************************************************************************)
(* SpecMono: two signal sets S1 (patch_analysis) and S2                    *)
(* (other_patch_analysis), S2 containing S1, scored against the same file  *)
(* analysis                                                                *)
(***************************************************************************)
\* largest number of changed files in the file analysis the two signal sets share
MonoFiles == 2

\* values of code_additions_count of the two signal sets
MonoCodeAdditionValues == {0, 51, 101}

\* big starts with small (the lists of enumerated signal sets repeat one entry)
ListContains(big, small) ==
    /\ Len(small) <= Len(big)
    /\ SubSeq(big, 1, Len(small)) = small

\* every list of s2 contains the corresponding list of s1 and every counter of s2
\* is at least that of s1
SignalSetContains(s2, s1) ==
    /\ ListContains(s2.new_functions_detected, s1.new_functions_detected)
    /\ ListContains(s2.new_classes_detected, s1.new_classes_detected)
    /\ ListContains(s2.enhanced_functions, s1.enhanced_functions)
    /\ ListContains(s2.environment_adjustments, s1.environment_adjustments)
    /\ ListContains(s2.config_only_changes, s1.config_only_changes)
    /\ s2.code_additions_count >= s1.code_additions_count
    /\ s2.config_additions_count >= s1.config_additions_count

InitMono ==
    /\ pc = "classify"
    /\ NothingAnalysed
    /\ \E t \in 0..MonoFiles, cats \in SUBSET {"documentation"} :
         /\ file_analysis = FileAnalysisOf(t, cats)
         /\ \E nf1 \in 0..MaxCount, nc1 \in 0..MaxCount, ne1 \in 0..MaxCount, nv1 \in 0..MaxCount,
               cfg1 \in 0..MonoFiles, ca1 \in MonoCodeAdditionValues :
              /\ Producible(nf1, nc1, ne1, nv1, cfg1, ca1, t, cats)
              /\ patch_analysis = SignalSet(nf1, nc1, ne1, nv1, cfg1, ca1)
              /\ \E nf2 \in nf1..MaxCount, nc2 \in nc1..MaxCount, ne2 \in ne1..MaxCount,
                    nv2 \in nv1..MaxCount, cfg2 \in cfg1..MonoFiles,
                    ca2 \in MonoCodeAdditionValues :
                   /\ ca2 >= ca1
                   /\ Producible(nf2, nc2, ne2, nv2, cfg2, ca2, t, cats)
                   /\ other_patch_analysis = SignalSet(nf2, nc2, ne2, nv2, cfg2, ca2)
    /\ meaningfulness = Unset
    /\ other_meaningfulness = Unset
    /\ request = Unset

\* both signal sets are scored against file_analysis
ClassifyBoth ==
    /\ pc = "classify"
    /\ other_patch_analysis # Unset
    /\ meaningfulness' = classify_fork_meaningfulness(patch_analysis, file_analysis)
    /\ other_meaningfulness' = classify_fork_meaningfulness(other_patch_analysis, file_analysis)
    /\ pc' = "commits"
    /\ UNCHANGED <<request, forks, max_forks, idx, all_insights, fork_data, comparison,
                   file_analysis, patch_analysis, commit_analysis, readme_analysis,
                   doc_analysis, summary, insights, other_patch_analysis>>

NextMono == ClassifyBoth

SpecMono == InitMono /\ [][NextMono]_vars

BothClassified == meaningfulness # Unset /\ other_meaningfulness # Unset

(***************************************************************************)
(* C6 (as stated): if every list of S2 contains the corresponding list of  *)
(* S1 and every counter of S2 is at least that of S1, the score of S2 is   *)
(* at least the score of S1.                                               *)
(***************************************************************************)
C6_AsStated ==
    BothClassified /\ SignalSetContains(other_patch_analysis, patch_analysis) =>
      other_meaningfulness.score >= meaningfulness.score

(***************************************************************************)
(* C6 (amended): the same, for signal sets S1 and S2 that have the same    *)
(* config_only_changes list.                                               *)
(***************************************************************************)
C6_Monotone ==
    /\ BothClassified
    /\ SignalSetContains(other_patch_analysis, patch_analysis)
    /\ other_patch_analysis.config_only_changes = patch_analysis.config_only_changes
    => other_meaningfulness.score >= meaningfulness.score

\* S2 has strictly more of a signal than S1, the same config-only files, both
\* penalised, and a strictly higher score
C6_Witness ==
    /\ BothClassified
    /\ SignalSetContains(other_patch_analysis, patch_analysis)
    /\ other_patch_analysis.config_only_changes = patch_analysis.config_only_changes
    /\ Len(other_patch_analysis.new_classes_detected) > Len(patch_analysis.new_classes_detected)
    /\ meaningfulness.score < meaningfulness.positive_score
    /\ other_meaningfulness.score > meaningfulness.score

(***************************************************************************)
(* Claims about the extractors, checked under SpecExtract                  *)
(***************************************************************************)
\* the comparison has a list of changed files
HasFiles == ~Lacks(comparison, "files")

(***************************************************************************)
(* C2 (as stated): for a comparison of a single code file whose patch has  *)
(* exactly one added line, a function declaration ('+def foo(' in a .py    *)
(* file, '+func Foo(' in a .go file, '+function foo(' in a .js file), and  *)
(* no other signal, new_functions_detected has exactly one entry, the      *)
(* score is 10 and the verdict is Meaningful with confidence medium.       *)
(***************************************************************************)
C2_AsStated ==
    /\ Classified
    /\ HasFiles
    /\ Len(comparison.files) = 1
    /\ comparison.files[1] \in {PyOneFunction, GoOneFunction, JsOneFunction}
    => /\ Len(patch_analysis.new_functions_detected) = 1
       /\ meaningfulness.score = 10
       /\ meaningfulness.classification = "Meaningful"
       /\ meaningfulness.confidence = "medium"

\* sample files that are configuration files, are not code files and carry a patch
ConfigurationSamples ==
    { f \in FileSamples : IsConfigFile(f.filename) /\ ~IsCodeFile(f.filename) /\ f.patch # "" }

\* those of them whose path matches no deployment keyword
PlainConfigurationSamples == { f \in ConfigurationSamples : ~IsDockerEnv(f.filename) }

\* the comparison has changed files and all of them are in the set
AllFilesIn(samples) ==
    /\ HasFiles
    /\ comparison.files # <<>>
    /\ \A i \in 1..Len(comparison.files) : comparison.files[i] \in samples

\* config_only_changes has one entry per changed file, the verdict carries the
\* configuration penalty of 15 and is Not Meaningful
ConfigOnlyOutcome ==
    /\ Len(patch_analysis.config_only_changes) = Len(comparison.files)
    /\ meaningfulness.score <= meaningfulness.positive_score - 15
    /\ meaningfulness.classification = "Not Meaningful"

(***************************************************************************)
(* C3 (as stated): when every changed file is a configuration file that    *)
(* carries a patch and none is a code file (for example .yaml files),      *)
(* config_only_changes has one entry per changed file, the -15             *)
(* configuration penalty is applied and the verdict is Not Meaningful.     *)
(***************************************************************************)
C3_AsStated ==
    Classified /\ AllFilesIn(ConfigurationSamples) => ConfigOnlyOutcome

(***************************************************************************)
(* C3 (amended): the same for configuration files whose path matches no    *)
(* deployment keyword (docker, kubernetes, k8s, .yml, .yaml).              *)
(***************************************************************************)
C3_ConfigOnly ==
    Classified /\ AllFilesIn(PlainConfigurationSamples) => ConfigOnlyOutcome

\* three plain configuration files: three entries, penalty, Not Meaningful
C3_Witness ==
    /\ Classified
    /\ HasFiles
    /\ Len(comparison.files) = 3
    /\ AllFilesIn(PlainConfigurationSamples)
    /\ Len(patch_analysis.config_only_changes) = 3
    /\ meaningfulness.score = -15
    /\ meaningfulness.classification = "Not Meaningful"

\* the comparison is None, an empty dict, or has empty files and empty commits
AbsentOrEmpty(c) ==
    \/ c = Unset
    \/ c = EmptyDict
    \/ (DOMAIN c = {"files", "commits"} /\ c.files = <<>> /\ c.commits = <<>>)

(***************************************************************************)
(* C4: for a comparison that is absent (None or empty) or whose files and  *)
(* commits are both empty, analyze_file_changes returns                    *)
(* total_files_changed = 0 with every list and set empty,                  *)
(* analyze_patch_content returns every list empty and both addition        *)
(* counters 0, analyze_commit_content returns every field empty, and the   *)
(* verdict of classify_fork_meaningfulness on these results is Not         *)
(* Meaningful with is_meaningful false and confidence low.                 *)
(***************************************************************************)
C4_ZeroValues ==
    AbsentOrEmpty(comparison) =>
      /\ file_analysis # Unset =>
           /\ file_analysis.total_files_changed = 0
           /\ file_analysis.files_by_type = <<>>
           /\ file_analysis.change_categories = {}
           /\ file_analysis.key_areas = <<>>
           /\ file_analysis.technical_changes = <<>>
           /\ file_analysis.specific_files_modified = <<>>
           /\ file_analysis.new_files_added = <<>>
           /\ file_analysis.files_removed = <<>>
           /\ file_analysis.major_changes = <<>>
      /\ patch_analysis # Unset =>
           /\ patch_analysis.new_functions_detected = <<>>
           /\ patch_analysis.new_classes_detected = <<>>
           /\ patch_analysis.enhanced_functions = <<>>
           /\ patch_analysis.environment_adjustments = <<>>
           /\ patch_analysis.config_only_changes = <<>>
           /\ patch_analysis.meaningfulness_signals = <<>>
           /\ patch_analysis.code_additions_count = 0
           /\ patch_analysis.config_additions_count = 0
      /\ meaningfulness # Unset =>
           /\ meaningfulness.classification = "Not Meaningful"
           /\ meaningfulness.is_meaningful = FALSE
           /\ meaningfulness.confidence = "low"
      /\ commit_analysis # Unset =>
           /\ commit_analysis.development_focus = <<>>
           /\ commit_analysis.key_features_mentioned = <<>>
           /\ commit_analysis.specific_actions = <<>>
           /\ commit_analysis.commit_sample = <<>>

\* the comparison is None and the three extractors and the scorer have returned
C4_Witness ==
    /\ comparison = Unset
    /\ pc = "readme"
    /\ file_analysis.total_files_changed = 0
    /\ patch_analysis.code_additions_count = 0
    /\ commit_analysis.commit_sample = <<>>
    /\ meaningfulness.classification = "Not Meaningful"

\* the README analysis has none of the optional text fields
NoOptionalText(ra) ==
    /\ ~Truthy(ra.stated_purpose)
    /\ ra.use_cases = <<>>
    /\ ~Truthy(ra.business_context)
    /\ ra.problems_solved = <<>>

(***************************************************************************)
(* C9 (as stated): when stated_purpose, use_cases, business_context and    *)
(* problems_solved are all empty, the summary that analyze_fork gets from  *)
(* generate_executive_summary (called with the verdict) contains the       *)
(* technical-change sentence of _extract_specific_changes, and the summary *)
(* is not the empty string.                                                *)
(***************************************************************************)
C9_AsStated ==
    (pc = "loop" /\ summary # None /\ NoOptionalText(readme_analysis)) =>
        /\ Contains(summary, extract_specific_changes(file_analysis, commit_analysis))
        /\ summary # ""

\* the record of a row: the columns analyze_fork copies into the dict it returns
Identity(d) ==
    [key \in {"fork_owner", "fork_name", "fork_url", "original_repo"} |-> d[key]]

Identities(ds) == Listed([n \in 1..Len(ds) |-> Identity(ds[n])])

\* the comparison that analyze_fork fetches for the row
ComparisonOf(row) ==
    get_comparison(Split(row.original_repo, "/")[1], Split(row.original_repo, "/")[2],
                   row.fork_owner, row.fork_name)

\* analyze_fork raises on the row: at line 1295, or once there is a comparison in an
\* extractor (lines 1346, 1351) or at line 1379
Raises(row) ==
    IF SplitRaises(row) THEN TRUE
    ELSE /\ Present(ComparisonOf(row))
         /\ \/ Raised(analyze_file_changes(ComparisonOf(row)))
            \/ Raised(analyze_patch_content(ComparisonOf(row)))
            \/ Get(row, "readme_changed", "") = None

\* the rows the loop has finished with, when no row is being analysed
Processed == Take(forks_to_process, idx)

(***************************************************************************)
(* C10: in process_csv an exception raised while one row is analysed is    *)
(* caught per row: the row is absent from the output list, every later row *)
(* is still analysed (the loop ends only after the last row), and the      *)
(* output list is, in order, the rows whose analysis did not raise, so k   *)
(* raising rows leave it k entries shorter than the rows processed.        *)
(***************************************************************************)
C10_PerRecordFailure ==
    /\ pc = "done" => idx = Len(forks_to_process)
    /\ pc \in {"loop", "done"} =>
          /\ Identities(all_insights)
               = Identities(SelectSeq(Processed, LAMBDA row : ~Raises(row)))
          /\ Len(all_insights)
               = Len(Processed) - Cardinality({n \in 1..Len(Processed) : Raises(Processed[n])})

\* of two rows the first raised and the second was analysed after it: one entry, the
\* second row's
C10_Witness ==
    /\ pc = "done"
    /\ Len(forks_to_process) = 2
    /\ Raises(forks_to_process[1])
    /\ ~Raises(forks_to_process[2])
    /\ Len(all_insights) = 1
    /\ Identity(all_insights[1]) = Identity(forks_to_process[2])
    /\ "summary" \in DOMAIN all_insights[1]

\* the keys analyze_fork sets before it asks for the comparison (lines 1304-1316)
BaseKeys ==
    {"fork_owner", "fork_name", "fork_url", "fork_owner_url", "original_repo",
     "original_url", "commits_ahead", "comparison_url", "owner_details"}

\* the analyses of the combined record
AnalysisKeys ==
    {"file_analysis", "patch_analysis", "commit_analysis", "readme_analysis", "meaningfulness"}

\* GitHub served the comparison of the fork of the record
ComparisonServed(d) ==
    Present(get_comparison(Split(d.original_repo, "/")[1], Split(d.original_repo, "/")[2],
                           d.fork_owner, d.fork_name))

(***************************************************************************)
(* C11 (as stated): every record that process_csv appends to the output    *)
(* list contains file_analysis, patch_analysis, commit_analysis,           *)
(* readme_analysis, meaningfulness and summary, also for a fork whose      *)
(* comparison could not be fetched.                                        *)
(***************************************************************************)
C11_AsStated ==
    \A n \in 1..Len(all_insights) :
        AnalysisKeys \cup {"summary"} \subseteq DOMAIN all_insights[n]

(***************************************************************************)
(* C11 (amended): every record that process_csv appends has the identity   *)
(* keys and a summary; the record of a fork whose comparison was fetched   *)
(* has in addition file_analysis, patch_analysis, commit_analysis,         *)
(* readme_analysis, documentation_analysis and meaningfulness; the record  *)
(* of a fork whose comparison could not be fetched has none of the         *)
(* analyses and carries error = comparison_failed and the fixed summary.   *)
(***************************************************************************)
C11_RecordShape ==
    \A n \in 1..Len(all_insights) :
        LET d == all_insights[n]
        IN  IF ComparisonServed(d)
            THEN DOMAIN d = BaseKeys \cup AnalysisKeys \cup {"documentation_analysis", "summary"}
            ELSE /\ DOMAIN d = BaseKeys \cup {"summary", "error"}
                 /\ d.error = "comparison_failed"
                 /\ d.summary = "Unable to analyze fork by " \o d.fork_owner
                                \o ". The repository may be private or inaccessible."

\* the output holds the record of a fork without comparison and, after it, the
\* record of an analysed fork
C11_Witness ==
    /\ pc = "done"
    /\ Len(all_insights) = 2
    /\ ~ComparisonServed(all_insights[1])
    /\ "error" \in DOMAIN all_insights[1]
    /\ ComparisonServed(all_insights[2])
    /\ "meaningfulness" \in DOMAIN all_insights[2]

\* the file with 0 in the place of a count that is not a number
Coerced(file_data) ==
    [filename  |-> file_data.filename,
     status    |-> file_data.status,
     additions |-> IF NotANumber(file_data, "additions") THEN 0 ELSE file_data.additions,
     deletions |-> IF NotANumber(file_data, "deletions") THEN 0 ELSE file_data.deletions,
     patch     |-> file_data.patch]

CoercedComparison(c) ==
    [c EXCEPT !.files = Listed([n \in 1..Len(c.files) |-> Coerced(c.files[n])])]

(***************************************************************************)
(* C12 (as stated): when a changed file carries additions or deletions     *)
(* that is not a number (None, a string), analyze_file_changes and         *)
(* analyze_patch_content take the count as 0 and complete: no exception    *)
(* leaves the extractor and the result is the one of the comparison with 0 *)
(* in the place of the malformed count.                                    *)
(***************************************************************************)
C12_AsStated ==
    /\ pc # "raised"
    /\ file_analysis # Unset =>
         file_analysis = analyze_file_changes(CoercedComparison(comparison))
    /\ patch_analysis # Unset =>
         patch_analysis = analyze_patch_content(CoercedComparison(comparison))

Penalty == meaningfulness.positive_score - meaningfulness.score

(***************************************************************************)
(* C14: classify_fork_meaningfulness subtracts 15 from the score exactly   *)
(* when total_files_changed > 0 and len(config_only_changes) /             *)
(* total_files_changed is strictly greater than 0.8 (5 * len > 4 * total); *)
(* with total_files_changed = 0 nothing is subtracted.                     *)
(***************************************************************************)
C14_ConfigPenalty ==
    Classified =>
        /\ Penalty \in {0, 10, 15, 25}
        /\ Penalty \in {15, 25}
             <=> /\ file_analysis.total_files_changed > 0
                 /\ 5 * Len(patch_analysis.config_only_changes)
                      > 4 * file_analysis.total_files_changed
        /\ file_analysis.total_files_changed = 0 => Penalty = 0

\* five of six changed files are configuration-only: 15 is subtracted, and nothing else
C14_Witness ==
    /\ Classified
    /\ file_analysis.total_files_changed = 6
    /\ Len(patch_analysis.config_only_changes) = 5
    /\ meaningfulness.positive_score > 0
    /\ meaningfulness.score = meaningfulness.positive_score - 15

(***************************************************************************)
(* C15: classify_fork_meaningfulness subtracts 10 from the score exactly   *)
(* when documentation is the only change category of the file analysis;    *)
(* with any other set of categories no documentation penalty is applied.   *)
(***************************************************************************)
C15_DocumentationPenalty ==
    Classified =>
        (Penalty \in {10, 25} <=> file_analysis.change_categories = {"documentation"})

\* documentation is the only category and the files are not configuration-only: 10 is
\* subtracted from a positive score
C15_Witness ==
    /\ Classified
    /\ file_analysis.change_categories = {"documentation"}
    /\ patch_analysis.config_only_changes = <<>>
    /\ meaningfulness.positive_score > 0
    /\ meaningfulness.score = meaningfulness.positive_score - 10

\* the places of the negative reasons in the reasons of the verdict
NegativeReasons ==
    { n \in 1..Len(meaningfulness.reasons) :
        \/ meaningfulness.reasons[n] = ConfigReason(patch_analysis)
        \/ meaningfulness.reasons[n] = "Only documentation changes" }

(***************************************************************************)
(* C16: a negative reason (the configuration-files reason, 'Only           *)
(* documentation changes') is appended only when the reasons list is empty *)
(* at that point: the reasons never hold both negative reasons and never   *)
(* hold a negative reason beside a positive one, also when both penalties  *)
(* were applied; a negative reason is there only if there is no positive   *)
(* evidence, and it is the reason of the first penalty applied.            *)
(***************************************************************************)
C16_NegativeReasons ==
    Classified =>
        /\ Cardinality(NegativeReasons) <= 1
        /\ NegativeReasons # {} =>
             /\ Len(meaningfulness.reasons) = 1
             /\ meaningfulness.positive_score = 0
             /\ Penalty > 0
        /\ InReasons("Only documentation changes", meaningfulness) => Penalty = 10
        /\ (Penalty > 0 /\ meaningfulness.positive_score = 0) => NegativeReasons # {}

\* both penalties were applied and there is no positive evidence: the only reason is
\* the configuration one
C16_Witness ==
    /\ Classified
    /\ Penalty = 25
    /\ meaningfulness.reasons = <<ConfigReason(patch_analysis)>>

(***************************************************************************)
(* SpecSummary: generate_executive_summary as analyze_fork calls it, over  *)
(* the analyses of the rows and every README and documentation analysis    *)
(* that analyze_readme_deeply and analyze_documentation_files can return   *)
(* within the bounds                                                       *)
(***************************************************************************)
\* the longest list of industry terms and of integrations drawn
MaxTerms == 2

\* the rows whose analysis reaches line 1383
SummaryRows ==
    { row \in ForkRows : ~Raises(row) /\ Present(ComparisonOf(row)) }

\* lines 437-541: README analyses as analyze_readme_deeply leaves them, the
\* business context synthesised from the other findings
SummaryReadmeAnalyses ==
    { [findings EXCEPT !.business_context = BusinessContext(findings)] :
        findings \in
            { [EmptyReadmeAnalysis EXCEPT
                 !.stated_purpose = purpose,
                 !.use_cases = cases,
                 !.target_audience = audience,
                 !.industry_terms = Take(<<"healthcare", "finance", "cloud">>, ni),
                 !.problems_solved = problems,
                 !.integrations_mentioned = Take(<<"stripe", "salesforce", "kafka", "sentry">>, ng)] :
                purpose \in {None, "processing insurance claims in hospital billing teams"},
                cases \in {<<>>, <<"nightly reconciliation of ledgers">>},
                audience \in {None, "enterprise customers"},
                ni \in 0..IF MaxTerms < 3 THEN MaxTerms ELSE 3,
                problems \in {<<>>, <<"slow exports of large reports">>},
                ng \in 0..MaxTerms } }

\* lines 550-652: documentation analyses as analyze_documentation_files leaves them;
\* an insight is recorded only with key points (line 636)
SummaryDocAnalyses ==
    { [EmptyDocAnalysis EXCEPT !.stated_goals = goals, !.documentation_insights = found] :
        goals \in {<<>>, <<"support installations without internet access">>},
        found \in { <<>>,
                    <<[file |-> "docs/architecture.md", type |-> "architecture",
                       key_points |-> <<"microservices">>]>>,
                    <<[file |-> "docs/architecture.md", type |-> "architecture",
                       key_points |-> <<"microservices">>],
                      [file |-> "docs/deployment.md", type |-> "deployment",
                       key_points |-> <<"Kubernetes deployment", "Docker containerization",
                                        "AWS infrastructure", "On-premise deployment">>]>> } }

\* analyze_fork at line 1383, lines 1304-1376 done
InitSummary ==
    /\ pc = "summary"
    /\ forks = <<>>
    /\ max_forks = Unset
    /\ idx = 0
    /\ all_insights = <<>>
    /\ fork_data \in SummaryRows
    /\ comparison = ComparisonOf(fork_data)
    /\ file_analysis = analyze_file_changes(comparison)
    /\ patch_analysis = analyze_patch_content(comparison)
    /\ meaningfulness = classify_fork_meaningfulness(patch_analysis, file_analysis)
    /\ commit_analysis = analyze_commit_content(comparison)
    /\ readme_analysis \in SummaryReadmeAnalyses
    /\ doc_analysis \in SummaryDocAnalyses
    /\ summary = None
    /\ insights =
         Put(Put(Put(Put(Put(Put(Put(NewInsights(fork_data),
             "comparison_url",
             ComparisonUrl(make_request(base_url \o "/repos/" \o original_owner \o "/"
                                        \o original_name),
                           make_request(base_url \o "/repos/" \o fork_data.fork_owner \o "/"
                                        \o fork_data.fork_name))),
             "file_analysis", file_analysis),
             "patch_analysis", patch_analysis),
             "meaningfulness", ReturnedVerdict(meaningfulness)),
             "commit_analysis", commit_analysis),
             "readme_analysis", readme_analysis),
             "documentation_analysis", doc_analysis)
    /\ other_patch_analysis = Unset
    /\ other_meaningfulness = Unset
    /\ request = Unset

NextSummary == GenerateSummary

SpecSummary == InitSummary /\ [][NextSummary]_vars

\* generate_executive_summary has returned for the fork
Summarised == pc = "loop" /\ summary # None /\ doc_analysis # Unset

\* the four sources of the purpose sentence, read from the analyses of the fork
HasStatedPurpose == Truthy(readme_analysis.stated_purpose)
HasStatedGoal == doc_analysis.stated_goals # <<>>
HasBusinessContext == Truthy(readme_analysis.business_context)
HasUseCase == readme_analysis.use_cases # <<>>

(***************************************************************************)
(* C17: the summary holds at most one purpose sentence, chosen by          *)
(* priority: the README's stated purpose; else the first stated goal of    *)
(* the documentation; else the README's business context; else the first   *)
(* use case of the README.  Each sentence is in the summary exactly when   *)
(* its source is there and every source before it is empty.                *)
(***************************************************************************)
C17_PurposePriority ==
    Summarised =>
        /\ Contains(summary, "The fork explicitly states it is ")
             <=> HasStatedPurpose
        /\ HasStatedPurpose =>
             Contains(summary, "The fork explicitly states it is "
                               \o readme_analysis.stated_purpose \o ".")
        /\ Contains(summary, "Documentation indicates the goal is to ")
             <=> (~HasStatedPurpose /\ HasStatedGoal)
        /\ (~HasStatedPurpose /\ HasStatedGoal) =>
             Contains(summary, "Documentation indicates the goal is to "
                               \o doc_analysis.stated_goals[1] \o ".")
        /\ HasBusinessContext =>
             (Contains(summary, readme_analysis.business_context)
                <=> (~HasStatedPurpose /\ ~HasStatedGoal))
        /\ HasUseCase =>
             (Contains(summary, "The fork is " \o readme_analysis.use_cases[1] \o ".")
                <=> (~HasStatedPurpose /\ ~HasStatedGoal /\ ~HasBusinessContext))

\* all four sources are there: the summary has the stated purpose and none of the others
C17_Witness ==
    /\ Summarised
    /\ HasStatedPurpose /\ HasStatedGoal /\ HasBusinessContext /\ HasUseCase
    /\ Contains(summary, "The fork explicitly states it is "
                         \o readme_analysis.stated_purpose \o ".")
    /\ ~Contains(summary, "Documentation indicates the goal is to ")
    /\ ~Contains(summary, readme_analysis.business_context)

\* summary_parts[:5] of the call that gave the summary (line 1099)
Sentences ==
    Take(SummaryParts(fork_data, file_analysis, commit_analysis, readme_analysis,
                      doc_analysis, meaningfulness), 5)

\* how each kind of sentence starts (lines 1021-1086, and 533-541 for the business
\* context): 1 opening, 2 headline, 3 purpose, 4 industry and audience, 5 deployment
\* documentation, 6 integrations, 7 problems
SentenceStarts ==
    << {"Developer '", "Organization '"},
       {"MEANINGFUL CHANGES: ", "NOT MEANINGFUL: "},
       {"The fork explicitly states it is ", "Documentation indicates the goal is to ",
        "Explicitly states: ", "Use case: ", "Targeted for ", "Addresses: "}
         \cup (IF HasUseCase THEN {"The fork is " \o readme_analysis.use_cases[1] \o "."}
               ELSE {}),
       {"This appears to be targeted at ", "The fork is focused on "},
       {"Deployment documentation covers "},
       {"Integrations mentioned include "},
       {"The changes address "} >>

\* the kind of a sentence, 0 for a sentence of no kind above
KindOf(sentence) ==
    IF \E kind \in 1..7 : \E start \in SentenceStarts[kind] : StartsWith(sentence, start)
    THEN CHOOSE kind \in 1..7 : \E start \in SentenceStarts[kind] : StartsWith(sentence, start)
    ELSE 0

\* the kinds of the sentences of the summary, in the order of the sentences
SentenceKinds ==
    Listed([n \in 1..Len(Sentences) |-> KindOf(Sentences[n])])

\* the kinds whose source is there, in order
SourcedKinds ==
    SelectSeq(<<1, 2, 3, 4, 5, 6, 7>>,
              LAMBDA kind :
                  CASE kind = 1 -> TRUE
                    [] kind = 2 -> meaningfulness.reasons # <<>>
                    [] kind = 3 -> \/ HasStatedPurpose \/ HasStatedGoal
                                   \/ HasBusinessContext \/ HasUseCase
                    [] kind = 4 -> readme_analysis.industry_terms # <<>>
                    [] kind = 5 -> \E n \in 1..Len(doc_analysis.documentation_insights) :
                                       doc_analysis.documentation_insights[n].type = "deployment"
                    [] kind = 6 -> readme_analysis.integrations_mentioned # <<>>
                    [] kind = 7 -> /\ readme_analysis.problems_solved # <<>>
                                   /\ ~HasStatedPurpose)

ComposedText == Join(" ", Sentences)

OneDeclarationLine ==
    {PyOneFunction, GoOneFunction, JsOneFunction, JavaOneFunction, PyOneClass}

(***************************************************************************)
(* C20 (as stated): the first structural match wins per category: one      *)
(* added line contributes at most one record to new_functions_detected and *)
(* at most one record to new_classes_detected.  Checked on comparisons of  *)
(* a single code file whose patch adds exactly one declaration line.       *)
(***************************************************************************)
C20_AsStated ==
    /\ patch_analysis # Unset
    /\ HasFiles
    /\ Len(comparison.files) = 1
    /\ comparison.files[1] \in OneDeclarationLine
    => /\ Len(patch_analysis.new_functions_detected) <= 1
       /\ Len(patch_analysis.new_classes_detected) <= 1

(***************************************************************************)
(* SpecReadme: analyze_readme_deeply as analyze_fork calls it, over the    *)
(* forks of upstream/gadget and upstream/gizmo                             *)
(***************************************************************************)
\* the rows of the forks of upstream/gadget and upstream/gizmo
GadgetRows ==
    { Row(PickedOwner("g", pick), "upstream/gadget", "User", "True") : pick \in ReadmePicks }
    \cup { Row(PickedOwner("z", pick), "upstream/gizmo", "User", "True") : pick \in ReadmePicks }

\* analyze_fork at line 1366, lines 1304-1363 done
InitReadme ==
    /\ pc = "readme"
    /\ forks = <<>>
    /\ max_forks = Unset
    /\ idx = 0
    /\ all_insights = <<>>
    /\ fork_data \in GadgetRows
    /\ comparison = ComparisonOf(fork_data)
    /\ file_analysis = analyze_file_changes(comparison)
    /\ patch_analysis = analyze_patch_content(comparison)
    /\ meaningfulness = classify_fork_meaningfulness(patch_analysis, file_analysis)
    /\ commit_analysis = analyze_commit_content(comparison)
    /\ readme_analysis = Unset
    /\ doc_analysis = Unset
    /\ summary = None
    /\ insights =
         Put(Put(Put(Put(Put(NewInsights(fork_data),
             "comparison_url",
             ComparisonUrl(make_request(base_url \o "/repos/" \o original_owner \o "/"
                                        \o original_name),
                           make_request(base_url \o "/repos/" \o fork_data.fork_owner \o "/"
                                        \o fork_data.fork_name))),
             "file_analysis", file_analysis),
             "patch_analysis", patch_analysis),
             "meaningfulness", ReturnedVerdict(meaningfulness)),
             "commit_analysis", commit_analysis)
    /\ other_patch_analysis = Unset
    /\ other_meaningfulness = Unset
    /\ request = Unset

\* analyze_fork, lines 1366-1391
NextReadme ==
    \/ AnalyzeReadme
    \/ AnalyzeDocumentationFiles
    \/ GenerateSummary

SpecReadme == InitReadme /\ [][NextReadme]_vars

\* analyze_readme_deeply has returned for the fork
ReadmeAnalysed == pc = "docs" /\ readme_analysis # Unset

\* the two READMEs of the call (lines 1366-1367)
original_readme == get_readme(original_owner, original_name)
fork_readme == get_readme(fork_data.fork_owner, fork_data.fork_name)

\* the lines of a README, as a set
LinesOf(readme) == { Split(readme, "\n")[n] : n \in 1..Len(Split(readme, "\n")) }

(***************************************************************************)
(* C21 (as stated): when both READMEs are there, a line of the fork's      *)
(* README is new content if and only if its trimmed length exceeds 10 and  *)
(* it is not an exact case-insensitive match of a line of the original; a  *)
(* fork README whose lines are all lines of the original gives the empty   *)
(* result.                                                                 *)
(***************************************************************************)
C21_AsStated ==
    ReadmeAnalysed /\ Truthy(original_readme) /\ Truthy(fork_readme) =>
        /\ NewContent(original_readme, fork_readme)
             = Join("\n", SelectSeq(Listed(Split(fork_readme, "\n")),
                                    LAMBDA line :
                                        /\ Len(Strip(line)) > 10
                                        /\ Lower(line) \notin LinesOf(Lower(original_readme))))
        /\ LinesOf(fork_readme) \subseteq LinesOf(original_readme)
             => readme_analysis = EmptyReadmeAnalysis

(***************************************************************************)
(* SpecPatch: analyze_file_changes, analyze_patch_content and              *)
(* classify_fork_meaningfulness over comparisons whose files sit on either *)
(* side of the tests of lines 695-789                                      *)
(***************************************************************************)
\* code files on either side of the tests of line 777: ten additions, status added, no
\* logic token (the last added line is 'return' once stripped)
PyTenAdditions == File("src/util.py", "modified", 10, 0,
                       "@@ -5,2 +5,10 @@\n+    if x > 1:\n+        y = x")
PyAddedLogic   == File("src/fresh.py", "added", 12, 0,
                       "@@ -0,0 +1,12 @@\n+for item in items:\n+    total = total + item")
PyNoLogic      == File("src/consts.py", "modified", 12, 0,
                       "@@ -1,2 +1,12 @@\n+LIMIT = 10\n+NAME = 'gadget'\n+    return")

\* files that are no code files, modified, with more than 10 additions and a logic token
ComposeLogic == File("docker-compose.yml", "modified", 12, 0,
                     "@@ -3,2 +3,12 @@\n+command: sh -c 'if [ -f /data/seed ]; then load; fi'\n+restart: always")
GuideLogic   == File("docs/guide.md", "modified", 12, 0,
                     "@@ -1,2 +1,12 @@\n+Run the tool if you need a report\n+Then return to the console")

\* deployment files on either side of the tests of lines 765 and 768: five additions,
\* three substantial lines beside a long comment
YamlFiveAdditions == File("k8s/ingress.yaml", "added", 5, 0,
                          "@@ -0,0 +1,5 @@\n+image: registry.example.com/app:1.2\n+command: run --listen 0.0.0.0:8080\n+hostname: app.internal.example.com\n+volume: /var/lib/app/data:/data:rw\n+port: 80")
YamlThreeLines    == File("k8s/job.yaml", "added", 6, 0,
                          "@@ -0,0 +1,6 @@\n+# this comment line is longer than twenty characters\n+image: registry.example.com/app:1.2\n+command: run --listen 0.0.0.0:8080\n+hostname: app.internal.example.com\n+       port: 80       \n+tty: true")

\* a code file under a deployment path, with logic and four substantial lines
DockerScript == File("docker/entrypoint.sh", "modified", 12, 1,
                     "@@ -1,3 +1,12 @@\n-exec gadget\n+if [ -z \"$GADGET_HOME\" ]; then\n+  export GADGET_HOME=/opt/gadget/current\n+fi\n+mkdir -p \"$GADGET_HOME/var/run/gadget\"\n+exec \"$GADGET_HOME/bin/gadget\" --foreground")

\* a code file that is a configuration file by its name, and a code file whose patch
\* GitHub left out
SettingsPy     == File("app/settings.py", "modified", 7, 0,
                       "@@ -1,2 +1,7 @@\n+DEBUG = False\n+TIMEOUT = 30")
PyLargeNoPatch == File("src/generated.py", "added", 400, 0, "")

PatchSamples ==
    <<PyEnhanced, PyTenAdditions, PyAddedLogic, PyNoLogic, ComposeLogic, GuideLogic,
      YamlDeployment, YamlFiveAdditions, YamlThreeLines, DockerScript, SettingsPy,
      PyLargeNoPatch, JsonConfig>>

\* the largest number of changed files of such a comparison
MaxPatchFiles == 2

\* the comparisons of up to MaxPatchFiles distinct samples, listed in the order of
\* PatchSamples or in the opposite order
PatchComparisons ==
    LET Monotone(l) == \/ \A i, j \in DOMAIN l : i < j => l[i] < l[j]
                       \/ \A i, j \in DOMAIN l : i < j => l[i] > l[j]
        picks == UNION { { l \in [1..k -> DOMAIN PatchSamples] : Monotone(l) } :
                         k \in 0..MaxPatchFiles }
    IN  { [files |-> Listed([n \in DOMAIN l |-> PatchSamples[l[n]]]), commits |-> <<>>] :
            l \in picks }

\* analyze_fork at line 1346, on such a comparison
InitPatch ==
    /\ pc = "files"
    /\ comparison \in PatchComparisons
    /\ forks = <<>>
    /\ max_forks = Unset
    /\ idx = 0
    /\ all_insights = <<>>
    /\ fork_data = Unset
    /\ file_analysis = Unset
    /\ patch_analysis = Unset
    /\ meaningfulness = Unset
    /\ commit_analysis = Unset
    /\ readme_analysis = Unset
    /\ doc_analysis = Unset
    /\ summary = None
    /\ insights = EmptyDict
    /\ other_patch_analysis = Unset
    /\ other_meaningfulness = Unset
    /\ request = Unset

NextPatch ==
    \/ AnalyzeFileChanges
    \/ AnalyzePatchContent
    \/ Classify

SpecPatch == InitPatch /\ [][NextPatch]_vars

\* analyze_patch_content has returned for the comparison
PatchAnalysed == patch_analysis # Unset /\ HasFiles

\* the added lines of a file's patch, as line 716 makes them: without the '+', stripped
AddedLinesOf(file_data) == AddedLines(Split(file_data.patch, "\n"))

\* at least one added line of the file holds a token of the logic vocabulary
HasLogic(file_data) ==
    \E n \in 1..Len(AddedLinesOf(file_data)) :
        ContainsAny(AddedLinesOf(file_data)[n], logic_indicators)

\* the names of the files of the comparison that pass the test, in their order
FilesWhere(Test(_)) ==
    LET passing == SelectSeq(comparison.files, Test)
    IN  Listed([n \in 1..Len(passing) |-> passing[n].filename])

\* the files of the entries of a list of the patch analysis, in their order
EntryFiles(entries) == Listed([n \in 1..Len(entries) |-> entries[n].file])

\* C22 as stated: any file with a patch, status modified, more than 10 additions and
\* an added line with a logic token is recorded
StatedAsEnhanced(file_data) ==
    /\ file_data.patch # ""
    /\ file_data.status = "modified"
    /\ file_data.additions > 10
    /\ HasLogic(file_data)

C22_AsStated ==
    PatchAnalysed =>
        EntryFiles(patch_analysis.enhanced_functions) = FilesWhere(StatedAsEnhanced)

(***************************************************************************)
(* C22: analyze_patch_content records a file as an enhanced-function entry *)
(* if and only if the file is a code file with a non-empty patch, status   *)
(* modified, more than 10 additions and at least one added line holding a  *)
(* token of the logic vocabulary; each file gives at most one entry, with  *)
(* the file's additions.                                                   *)
(***************************************************************************)
C22_EnhancedFunctions ==
    PatchAnalysed =>
        /\ EntryFiles(patch_analysis.enhanced_functions)
             = FilesWhere(LAMBDA file_data :
                              IsCodeFile(file_data.filename) /\ StatedAsEnhanced(file_data))
        /\ \A n \in 1..Len(patch_analysis.enhanced_functions) :
               \E m \in 1..Len(comparison.files) :
                   /\ comparison.files[m].filename = patch_analysis.enhanced_functions[n].file
                   /\ comparison.files[m].additions
                        = patch_analysis.enhanced_functions[n].additions

\* a code file with 11 additions is recorded, the one with 10 beside it is not
C22_Witness ==
    /\ PatchAnalysed
    /\ comparison.files = <<PyTenAdditions, PyEnhanced>>
    /\ patch_analysis.enhanced_functions = <<[file |-> "src/core.py", additions |-> 11]>>

\* a file that passes the tests of lines 764-767
IsAdjustment(file_data) ==
    /\ file_data.patch # ""
    /\ IsDockerEnv(file_data.filename)
    /\ file_data.additions > 5
    /\ Len(SelectSeq(AddedLinesOf(file_data),
                     LAMBDA l : Len(l) > 20 /\ ~StartsWith(l, "#"))) >= 4

(***************************************************************************)
(* C23: analyze_patch_content records a file as an environment adjustment  *)
(* if and only if the file has a non-empty patch, its path matches a       *)
(* deployment keyword (docker, kubernetes, k8s, .yml, .yaml), it has more  *)
(* than 5 additions, and at least four of its added lines are longer than  *)
(* 20 characters (without the spaces around them) and are no comment       *)
(* lines (do not start with '#'); each file gives at most one entry.       *)
(***************************************************************************)
C23_EnvironmentAdjustments ==
    PatchAnalysed =>
        EntryFiles(patch_analysis.environment_adjustments) = FilesWhere(IsAdjustment)

\* of two deployment files with the same four substantial lines, the one with 6
\* additions is recorded and the one with 5 is not
C23_Witness ==
    /\ PatchAnalysed
    /\ comparison.files = <<YamlFiveAdditions, YamlDeployment>>
    /\ EntryFiles(patch_analysis.environment_adjustments) = <<"k8s/service.yaml">>

RECURSIVE AdditionsOf(_)
\* the sum of the additions field over a list of files
AdditionsOf(files) ==
    IF files = <<>> THEN 0 ELSE Head(files).additions + AdditionsOf(Tail(files))

\* C24 as stated: the counters are the sums over the code files and over the
\* configuration files of the comparison
C24_AsStated ==
    PatchAnalysed =>
        /\ patch_analysis.code_additions_count
             = AdditionsOf(SelectSeq(comparison.files,
                                     LAMBDA file_data : IsCodeFile(file_data.filename)))
        /\ patch_analysis.config_additions_count
             = AdditionsOf(SelectSeq(comparison.files,
                                     LAMBDA file_data : IsConfigFile(file_data.filename)))

(***************************************************************************)
(* C24: code_additions_count is the sum of the additions field over the    *)
(* code files of the comparison that have a patch, and                     *)
(* config_additions_count is the sum of the additions field over its       *)
(* configuration files that have a patch and are no code files; the values *)
(* are those of the additions field, and no file is counted in both.       *)
(***************************************************************************)
C24_AdditionCounts ==
    PatchAnalysed =>
        /\ patch_analysis.code_additions_count
             = AdditionsOf(SelectSeq(comparison.files,
                                     LAMBDA file_data : /\ file_data.patch # ""
                                                        /\ IsCodeFile(file_data.filename)))
        /\ patch_analysis.config_additions_count
             = AdditionsOf(SelectSeq(comparison.files,
                                     LAMBDA file_data : /\ file_data.patch # ""
                                                        /\ ~IsCodeFile(file_data.filename)
                                                        /\ IsConfigFile(file_data.filename)))

\* a code file named like a configuration file beside a code file without patch: only
\* the first is counted, and as code
C24_Witness ==
    /\ PatchAnalysed
    /\ comparison.files = <<SettingsPy, PyLargeNoPatch>>
    /\ patch_analysis.code_additions_count = 7
    /\ patch_analysis.config_additions_count = 0

\* the analysis went past line 434: the fork has a README with 50 characters or more
\* of new content
ReadmeSynthesised ==
    /\ ReadmeAnalysed
    /\ Truthy(fork_readme)
    /\ Len(NewContent(original_readme, fork_readme)) >= 50

(***************************************************************************)
(* C25: analyze_readme_deeply sets business_context from the first         *)
(* available of the stated purpose, the first use case, the first two      *)
(* industry terms and the first problem solved; business_context is set    *)
(* exactly when one of the four is non-empty; and use_cases,               *)
(* industry_terms and problems_solved (like every other field) hold what   *)
(* was found in the new content, whichever of them was chosen.             *)
(***************************************************************************)
C25_BusinessContext ==
    ReadmeAnalysed =>
        /\ readme_analysis.business_context
             = IF Truthy(readme_analysis.stated_purpose)
                 THEN "Explicitly states: " \o readme_analysis.stated_purpose
               ELSE IF readme_analysis.use_cases # <<>>
                 THEN "Use case: " \o readme_analysis.use_cases[1]
               ELSE IF readme_analysis.industry_terms # <<>>
                 THEN "Targeted for "
                        \o Join(", ", Take(readme_analysis.industry_terms, 2))
                        \o " applications"
               ELSE IF readme_analysis.problems_solved # <<>>
                 THEN "Addresses: " \o readme_analysis.problems_solved[1]
               ELSE None
        /\ Truthy(readme_analysis.business_context)
             <=> \/ Truthy(readme_analysis.stated_purpose)
                 \/ readme_analysis.use_cases # <<>>
                 \/ readme_analysis.industry_terms # <<>>
                 \/ readme_analysis.problems_solved # <<>>
        /\ Truthy(fork_readme) =>
               LET new_content == NewContent(original_readme, fork_readme)
                   found       == ReadmeFindings(new_content, Lower(new_content),
                                                 FirstMatch(purpose_patterns,
                                                            Lower(new_content)))
               IN  Len(new_content) >= 50 =>
                       \A field \in DOMAIN readme_analysis \ {"business_context"} :
                           readme_analysis[field] = found[field]

\* a README with a stated purpose, a use case, an industry term and a problem: the
\* purpose is chosen and the three other fields are still filled
C25_Witness ==
    /\ ReadmeSynthesised
    /\ StartsWith(readme_analysis.business_context, "Explicitly states: ")
    /\ readme_analysis.use_cases # <<>>
    /\ readme_analysis.industry_terms # <<>>
    /\ readme_analysis.problems_solved # <<>>

\* the three lower alternatives are each chosen by some README
C25_UseCaseChosen ==
    ReadmeSynthesised /\ StartsWith(readme_analysis.business_context, "Use case: ")
C25_IndustryChosen ==
    ReadmeSynthesised /\ StartsWith(readme_analysis.business_context, "Targeted for ")
C25_ProblemChosen ==
    ReadmeSynthesised /\ StartsWith(readme_analysis.business_context, "Addresses: ")
C25_NothingChosen ==
    ReadmeSynthesised /\ readme_analysis.business_context = None

\* analyze_fork has composed the summary of a fork of upstream/gadget or upstream/gizmo
ReadmeSummarised ==
    pc = "loop" /\ summary # None /\ readme_analysis # Unset /\ doc_analysis # Unset

(***************************************************************************)
(* C29: in a README analysis that analyze_readme_deeply returned, a        *)
(* non-empty use_cases comes with a business_context that is set; so the   *)
(* summary that generate_executive_summary composes from it never has the  *)
(* fourth purpose alternative, 'The fork is <use case>.'.                  *)
(***************************************************************************)
C29_UseCaseNeverEmitted ==
    /\ readme_analysis # Unset /\ HasUseCase => HasBusinessContext
    /\ ReadmeSummarised =>
           /\ summary = ComposedText
           /\ HasUseCase =>
                  \A n \in 1..Len(Sentences) :
                      Sentences[n] # "The fork is " \o readme_analysis.use_cases[1] \o "."

\* a README with a use case and no stated purpose: the third sentence of the summary is
\* the business context made of the use case
C29_Witness ==
    /\ ReadmeSummarised
    /\ HasUseCase
    /\ ~HasStatedPurpose
    /\ ~HasStatedGoal
    /\ Sentences[3] = "Use case: " \o readme_analysis.use_cases[1]

(***************************************************************************)
(* C27: whenever classify_fork_meaningfulness returns is_meaningful = true *)
(* for a patch analysis of analyze_patch_content, that patch analysis has  *)
(* has_meaningful_code_changes = true: it has a new function, a new class, *)
(* an enhanced function, an environment adjustment or more than 50 code    *)
(* additions.                                                              *)
(***************************************************************************)
C27_MeaningfulHasCodeChanges ==
    Classified /\ meaningfulness.is_meaningful =>
        /\ patch_analysis.has_meaningful_code_changes
        /\ HasMeaningfulCodeChanges(patch_analysis)

\* a positive verdict that rests on 51 code additions alone
C27_Witness ==
    /\ Classified
    /\ meaningfulness.is_meaningful
    /\ patch_analysis.code_additions_count = 51
    /\ patch_analysis.meaningfulness_signals = <<>>
    /\ patch_analysis.has_meaningful_code_changes

\* the other direction does not hold: an enhanced function in a fork that is otherwise
\* configuration files has code changes and no positive verdict
C27_NotTheOtherWay ==
    /\ Classified
    /\ ~meaningfulness.is_meaningful
    /\ patch_analysis.has_meaningful_code_changes

(***************************************************************************)
(* C28: the verdict of classify_fork_meaningfulness always has a non-empty *)
(* list of reasons: a meaningful verdict carries the reasons of its        *)
(* positive evidence, at least one; a verdict that is not meaningful and   *)
(* has no reason recorded by line 962 has the one reason 'No significant   *)
(* code changes detected'.                                                 *)
(***************************************************************************)
C28_ReasonsNeverEmpty ==
    Classified =>
        LET positive == PositiveEvidence(patch_analysis).reasons
            recorded == NegativeIndicators(PositiveEvidence(patch_analysis),
                                           patch_analysis, file_analysis).reasons
        IN  /\ meaningfulness.reasons # <<>>
            /\ meaningfulness.is_meaningful =>
                   positive # <<>> /\ meaningfulness.reasons = positive
            /\ ~meaningfulness.is_meaningful /\ recorded = <<>> =>
                   meaningfulness.reasons = <<"No significant code changes detected">>
            /\ recorded # <<>> => meaningfulness.reasons = recorded

\* 50 code additions in one changed file are no evidence and no penalty: the verdict is
\* not meaningful and gets the fallback reason
C28_Witness ==
    /\ Classified
    /\ ~meaningfulness.is_meaningful
    /\ patch_analysis.code_additions_count = 50
    /\ file_analysis.total_files_changed = 1
    /\ meaningfulness.reasons = <<"No significant code changes detected">>

(***************************************************************************)
(* SpecCommits: analyze_commit_content applied to the commit lists made of *)
(* a run of commits without keyword followed by commits chosen from a pool *)
(***************************************************************************)
ImproveCache  == Commit("Improve caching\n\nfix typos in the notes")
Restructure   == Commit("Refactor and restructure parser")
SecureTokens  == Commit("Secure auth tokens")
SpeedTest     == Commit("Implement speed test")
Wip           == Commit("wip")

CommitPool == {FixLogin, ImproveCache, Restructure, SecureTokens, SpeedTest}

\* the largest number of commits of the pool in a list
MaxCommits == 3

\* how many commits without keyword come first: none, or so many that the last commit
\* of a full list of the pool is the 21st
LeadingCommits == {0, 18}

CommitLists ==
    { Rep(lead, Wip) \o chosen :
        lead \in LeadingCommits,
        chosen \in UNION { [1..k -> CommitPool] : k \in 0..MaxCommits } }

\* analyze_fork at line 1362, for a comparison without changed files
InitCommits ==
    /\ pc = "commits"
    /\ \E commits \in CommitLists : comparison = [files |-> <<>>, commits |-> commits]
    /\ forks = <<>>
    /\ max_forks = Unset
    /\ idx = 0
    /\ all_insights = <<>>
    /\ fork_data = Unset
    /\ file_analysis = analyze_file_changes(comparison)
    /\ patch_analysis = analyze_patch_content(comparison)
    /\ meaningfulness = classify_fork_meaningfulness(patch_analysis, file_analysis)
    /\ commit_analysis = Unset
    /\ readme_analysis = Unset
    /\ doc_analysis = Unset
    /\ summary = None
    /\ insights = EmptyDict
    /\ other_patch_analysis = Unset
    /\ other_meaningfulness = Unset
    /\ request = Unset

NextCommits == AnalyzeCommitContent

SpecCommits == InitCommits /\ [][NextCommits]_vars

\* the commits have been analysed
CommitsAnalysed == commit_analysis # Unset /\ ~Lacks(comparison, "commits")

\* the titles of the first 20 commits, lowered and joined by spaces
FirstTwentyText ==
    LET first  == SubSeq(comparison.commits, 1,
                         IF Len(comparison.commits) < 20 THEN Len(comparison.commits) ELSE 20)
        titles == SelectSeq(Listed([n \in 1..Len(first) |-> TitleOf(first[n])]),
                            LAMBDA title : title # "")
    IN  Lower(Join(" ", titles))

\* the score of the k-th category of the dict in that text
FocusScore(k) == SumCounts(FirstTwentyText, focus_patterns[k].keywords)

\* the place of a category in the declaration of the dict
Declared(category) ==
    CHOOSE k \in 1..Len(focus_patterns) : focus_patterns[k].category = category

\* category a ranks before category b: a higher score, or the same score and an
\* earlier declaration
RanksBefore(a, b) ==
    \/ FocusScore(a) > FocusScore(b)
    \/ FocusScore(a) = FocusScore(b) /\ a < b

(***************************************************************************)
(* C26: analyze_commit_content reads only the first 20 commits;            *)
(* development_focus lists at most 3 categories, each with a keyword score *)
(* above zero in the titles of those commits, by descending score, equal   *)
(* scores in the declaration order of the eight categories, and no         *)
(* category left out ranks before a listed one; an empty commit list gives *)
(* empty development_focus, key_features_mentioned and commit_sample.      *)
(***************************************************************************)
C26_DevelopmentFocus ==
    CommitsAnalysed =>
        LET focus  == commit_analysis.development_focus
            scored == { k \in 1..Len(focus_patterns) : FocusScore(k) > 0 }
        IN  /\ Len(commit_analysis.commit_sample) <= 20
            /\ Len(focus) = (IF Cardinality(scored) < 3 THEN Cardinality(scored) ELSE 3)
            /\ \A n \in 1..Len(focus) :
                   /\ focus[n] \in { focus_patterns[k].category : k \in scored }
                   /\ \A m \in (n + 1)..Len(focus) :
                          RanksBefore(Declared(focus[n]), Declared(focus[m]))
                   /\ \A k \in scored :
                          (\A m \in 1..Len(focus) : focus[m] # focus_patterns[k].category)
                              => RanksBefore(Declared(focus[n]), k)
            /\ comparison.commits = <<>> =>
                   /\ focus = <<>>
                   /\ commit_analysis.key_features_mentioned = <<>>
                   /\ commit_analysis.commit_sample = <<>>

\* four categories score in three commits: security and refactoring, 2 each, in
\* declaration order, then new_capabilities, which is declared before performance,
\* both 1
C26_Witness ==
    /\ CommitsAnalysed
    /\ comparison.commits = <<Restructure, SpeedTest, SecureTokens>>
    /\ commit_analysis.development_focus = <<"security", "refactoring", "new_capabilities">>

\* the 21st commit is not read
C26_TwentyFirstIgnored ==
    /\ CommitsAnalysed
    /\ comparison.commits = Rep(18, Wip) \o <<FixLogin, ImproveCache, SecureTokens>>
    /\ commit_analysis.development_focus = <<"improvements", "bug_fixes">>
    /\ Len(commit_analysis.commit_sample) = 20

(***************************************************************************)
(* SpecRequest: one call of _make_request (lines 43-72) against a server   *)
(* that answers each request as it likes.  The retry after a rate-limited  *)
(* response is a call of _make_request from inside itself (line 55), so    *)
(* every retry takes one more frame of the interpreter's stack.            *)
(***************************************************************************)
\* the nested calls of _make_request that fit under the interpreter's recursion limit
\* (sys.getrecursionlimit(), 1000 unless it is changed, less the frames of the
\* callers and of requests.get)
MaxFrames == 24

RecursionError == [raised |-> "RecursionError"]

ValueError == [raised |-> "ValueError"]

\* requests.get raised a RequestException instead of giving a response
RequestException == [raised |-> "RequestException"]

\* a response: status_code, text, and whether text is a JSON document
Response(status_code, text) == [status_code |-> status_code, text |-> text]

\* response.json() for the bodies the server sends; a body that is no JSON document
\* is not in the table
JsonBodies ==
    Put(Put(EmptyDict,
        "{\"default_branch\": \"main\"}", [default_branch |-> "main"]),
        "{\"content\": \"IyMgU2V0dXAK\"}", [content |-> "IyMgU2V0dXAK"])

\* the responses of the server to the rate limit, by text
RateLimitedResponses ==
    { Response(403, "{\"message\": \"API rate limit exceeded for user ID 1.\"}"),
      Response(403, "{\"message\": \"You have exceeded a secondary rate limit.\"}") }

\* its other responses
OtherResponses ==
    { Response(200, "{\"default_branch\": \"main\"}"),
      Response(200, "{\"content\": \"IyMgU2V0dXAK\"}"),
      Response(200, "<html>Bad gateway</html>"),
      Response(404, "{\"message\": \"Not Found\"}"),
      Response(403, "{\"message\": \"Resource not accessible by integration\"}"),
      Response(429, "{\"message\": \"API rate limit exceeded\"}"),
      Response(500, "{\"message\": \"Server Error\"}") }

Responses == RateLimitedResponses \cup OtherResponses

\* what a call of _make_request gave back with a return statement
Returned(value) == [value |-> value]

\* line 50
IsRateLimited(response) ==
    response.status_code = 403 /\ Contains(Lower(response.text), "rate limit")

\* the responses that line 50 takes as rate-limited
RateLimited == { response \in Responses : IsRateLimited(response) }

\* a caller has entered _make_request(url); nothing was requested yet
InitRequest ==
    /\ pc = "request"
    /\ request = [calls |-> 1, response |-> Unset, returned |-> Unset]
    /\ NothingAnalysed
    /\ max_forks = Unset
    /\ file_analysis = Unset
    /\ patch_analysis = Unset
    /\ meaningfulness = Unset
    /\ other_patch_analysis = Unset
    /\ other_meaningfulness = Unset

\* every variable but pc and request
analysis_vars ==
    <<forks, max_forks, idx, all_insights, fork_data, comparison, file_analysis,
      patch_analysis, meaningfulness, commit_analysis, readme_analysis, doc_analysis,
      summary, insights, other_patch_analysis, other_meaningfulness>>

\* lines 47-55: the response is rate-limited; after the wait _make_request is called
\* again, one frame deeper
RetryAfterRateLimit ==
    /\ pc = "request"
    /\ request.calls < MaxFrames
    /\ \E response \in RateLimited :
           /\ request' = [request EXCEPT !.calls = @ + 1, !.response = response]
    /\ pc' = "request"
    /\ UNCHANGED analysis_vars

\* line 55 with the stack full: the call raises RecursionError, which is no
\* RequestException and leaves every frame of _make_request
RecursionDepthExceeded ==
    /\ pc = "request"
    /\ request.calls = MaxFrames
    /\ \E response \in RateLimited :
           /\ request' = [request EXCEPT !.response = response, !.returned = RecursionError]
    /\ pc' = "raised"
    /\ UNCHANGED analysis_vars

\* lines 57-66: a status other than 200 gives None
ReturnNoneForStatus ==
    /\ pc = "request"
    /\ \E response \in Responses \ RateLimited :
           /\ response.status_code # 200
           /\ request' = [request EXCEPT !.response = response, !.returned = Returned(None)]
    /\ pc' = "returned"
    /\ UNCHANGED analysis_vars

\* lines 68-69: status 200 and a JSON body
ReturnJson ==
    /\ pc = "request"
    /\ \E response \in Responses \ RateLimited :
           /\ response.status_code = 200
           /\ response.text \in DOMAIN JsonBodies
           /\ request' = [request EXCEPT !.response = response,
                                         !.returned = Returned(JsonBodies[response.text])]
    /\ pc' = "returned"
    /\ UNCHANGED analysis_vars

\* line 69 for a body that is no JSON document: response.json() raises a
\* JSONDecodeError, which is a RequestException from requests 2.27 on (line 70 gives
\* None) and only a ValueError before (it leaves _make_request)
JsonDecodeError ==
    /\ pc = "request"
    /\ \E response \in Responses \ RateLimited :
           /\ response.status_code = 200
           /\ response.text \notin DOMAIN JsonBodies
           /\ \/ /\ request' = [request EXCEPT !.response = response, !.returned = Returned(None)]
                 /\ pc' = "returned"
              \/ /\ request' = [request EXCEPT !.response = response,
                                               !.returned = ValueError]
                 /\ pc' = "raised"
    /\ UNCHANGED analysis_vars

\* lines 47, 70-72: requests.get raises a RequestException
CatchRequestException ==
    /\ pc = "request"
    /\ request' = [request EXCEPT !.response = RequestException, !.returned = Returned(None)]
    /\ pc' = "returned"
    /\ UNCHANGED analysis_vars

NextRequest ==
    \/ RetryAfterRateLimit
    \/ RecursionDepthExceeded
    \/ ReturnNoneForStatus
    \/ ReturnJson
    \/ JsonDecodeError
    \/ CatchRequestException

SpecRequest == InitRequest /\ [][NextRequest]_vars

\* the loop of the program goes on: a request is answered, or requests.get raises
FairSpecRequest == SpecRequest /\ WF_vars(NextRequest)

\* the first call of _make_request is over
RequestOver == request # Unset /\ pc \in {"returned", "raised"}

(***************************************************************************)
(* C30: _make_request never ends on a rate-limited response (status 403    *)
(* and a body that mentions the rate limit): it waits and asks again,      *)
(* however often; it ends with the first response that is not              *)
(* rate-limited, returning the parsed body for status 200 and None for any *)
(* other status or a request exception.                                    *)
(***************************************************************************)
C30_AsStated ==
    RequestOver =>
        LET response == request.response
        IN  /\ response # RequestException => ~IsRateLimited(response)
            /\ response = RequestException \/ response.status_code # 200 =>
                   pc = "returned" /\ request.returned = Returned(None)
            /\ /\ response # RequestException
               /\ response.status_code = 200
               /\ response.text \in DOMAIN JsonBodies
               => pc = "returned" /\ request.returned = Returned(JsonBodies[response.text])

\* the call ends in every run, also in the runs in which the server never stops
\* answering with the rate-limit response
C30_AlwaysEnds == <>RequestOver

\* a run that ends on a rate-limited response: MaxFrames of them, then RecursionError
C30_EndsRateLimited ==
    /\ RequestOver
    /\ pc = "raised"
    /\ request.returned = RecursionError
    /\ IsRateLimited(request.response)
    /\ request.calls = MaxFrames

\* what the statement gets right: below the limit of the stack, a call that has seen
\* only rate-limited responses is still running
C30_StillRetrying ==
    /\ pc = "request"
    /\ request # Unset
    /\ request.calls > 1
    /\ IsRateLimited(request.response)

==============================================================================
